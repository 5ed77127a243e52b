------------------------------ MODULE Transfer ------------------------------
(***************************************************************************)
(* Carrying a conversation from one provider to another.  A transfer reads *)
(* the messages and writes a bundle file (transfer_with_report); a         *)
(* delivery reads that file back, writes the target's inbox and stores the *)
(* messages once more under the target (deliver_transfer_bundle); a resume *)
(* reads the file again and writes the handoff of the workspace            *)
(* (resume_session).  The name of the bundle follows from the project, the *)
(* providers and the first 40 characters of the conversation that is asked *)
(* for, and a target has one inbox, so that commands that overlap meet in  *)
(* these files.  One project, one source and one target provider; summaries*)
(* travel with the messages and are left out.                              *)
(***************************************************************************)
EXTENDS ProjectMesh

CONSTANTS
    Label,      \* what is asked for: a part of a conversation's id, or all
    RowsOf,     \* the messages of the source provider that a label finds
    Path,       \* bundle files
    PathOf,     \* the bundle file of each label
    Empty,      \* a file that was truncated, or written in part
    Mixed       \* two writers' bytes in one file

Files == {"context", "import", "transfer"}
Content == [label : Label, rows : SUBSET Entry]

ASSUME TransferAssumption ==
    /\ RowsOf \in [Label -> SUBSET Entry]
    /\ PathOf \in [Label -> Path]
    /\ {Empty, Mixed, None} \cap Content = {}
    /\ Cardinality({Empty, Mixed, None}) = 3

VARIABLES
    bundle,     \* the bundle files
    inbox,      \* the files of the target's inbox
    handoff,    \* the handoff file in the workspace
    copies,     \* the messages stored under the target, with their label
    xfer        \* the transfer that each worker runs, one at most

transferVars == <<bundle, inbox, handoff, copies, xfer>>

NotBegun == [at |-> "idle"]
Gone == [at |-> "gone"]

(***************************************************************************)
(* "transfer" writes a bundle, "go" also delivers it (as the terminal      *)
(* interface does), "resume" hands it off, and "deliver" delivers a bundle *)
(* that is there.  "floor" is what the transfer read, "early" what the     *)
(* earliest transfer under way at the same file had read as well, and      *)
(* "solo" says that no other transfer was under way so far.                *)
(***************************************************************************)
Kinds == {"transfer", "go", "resume", "deliver"}
LastPhase == [transfer |-> "written", go |-> "ingested",
              resume |-> "handed", deliver |-> "ingested"]
Phases == {"read", "open", "written", "loaded", "context", "import",
           "copied", "ingested", "reloaded", "handed"}
Xfer == [kind : Kinds, label : Label, at : Phases, floor : SUBSET Entry,
         early : SUBSET Entry, solo : BOOLEAN, load : Content \cup {None}]

\* The commands that read the bundle back.
Delivers(x) == x.kind # "transfer"

Active == {w \in Worker : xfer[w] \notin {NotBegun, Gone}}
Writers(p) == {w \in Active : /\ xfer[w].kind # "deliver"
                              /\ PathOf[xfer[w].label] = p}

TransferInit ==
    /\ bundle = [p \in Path |-> None]
    /\ inbox = [f \in Files |-> None]
    /\ handoff = None
    /\ copies = {}
    /\ xfer = [w \in Worker |-> NotBegun]

TransferBegins(w, x) ==
    /\ xfer[w] = NotBegun
    /\ xfer' = [v \in Worker |->
          IF v = w THEN x
          ELSE IF v \notin Active THEN xfer[v]
          ELSE [xfer[v] EXCEPT !.solo = FALSE,
                    !.early = IF /\ x.kind # "deliver" /\ xfer[v].label # x.label
                                 /\ PathOf[xfer[v].label] = PathOf[x.label]
                              THEN {} ELSE @]]

ReadRows(w) ==
    /\ "transfer" \in ops[w]
    /\ \E k \in Kinds \ {"deliver"}, l \in Label :
          LET rows == stored \cap RowsOf[l] IN
          TransferBegins(w,
              [kind |-> k, label |-> l, at |-> "read", floor |-> rows,
               early |-> {e \in rows : \A v \in Writers(PathOf[l]) :
                              xfer[v].label = l /\ e \in xfer[v].floor},
               solo |-> Active = {}, load |-> None])
    /\ UNCHANGED <<vars, bundle, inbox, handoff, copies>>

FindBundle(w) ==
    /\ "transfer" \in ops[w]
    /\ \E l \in Label :
          /\ bundle[PathOf[l]] # None
          /\ TransferBegins(w,
                [kind |-> "deliver", label |-> l, at |-> "written",
                 floor |-> {}, early |-> {}, solo |-> Active = {},
                 load |-> None])
    /\ UNCHANGED <<vars, bundle, inbox, handoff, copies>>

(***************************************************************************)
(* The bundle is written in place: it is truncated when it is opened, and  *)
(* what another process wrote since then stays behind the end of a shorter *)
(* text.                                                                   *)
(***************************************************************************)
OpenBundle(w) ==
    /\ xfer[w].at = "read"
    /\ bundle' = [bundle EXCEPT ![PathOf[xfer[w].label]] = Empty]
    /\ xfer' = [xfer EXCEPT ![w].at = "open"]
    /\ UNCHANGED <<vars, inbox, handoff, copies>>

WriteBundle(w) ==
    LET x == xfer[w]
        p == PathOf[x.label]
    IN
    /\ x.at = "open"
    /\ \E c \in {[label |-> x.label, rows |-> x.floor], Mixed} :
          /\ bundle[p] = Empty => c # Mixed
          /\ bundle' = [bundle EXCEPT ![p] = c]
    /\ xfer' = [xfer EXCEPT ![w].at = "written"]
    /\ UNCHANGED <<vars, inbox, handoff, copies>>

(***************************************************************************)
(* deliver_transfer_bundle parses the bundle once, and copies the file as  *)
(* it is then next to what it wrote from it.  A file that does not parse   *)
(* ends the command.                                                       *)
(***************************************************************************)
Bundle(w) == bundle[PathOf[xfer[w].label]]

LoadLenient(w) ==
    /\ xfer[w].at = "written" /\ Delivers(xfer[w])
    /\ xfer' = [xfer EXCEPT ![w].at = "loaded",
          ![w].load = IF Bundle(w) \in Content THEN Bundle(w)
                      ELSE [label |-> xfer[w].label, rows |-> {}]]
    /\ UNCHANGED <<vars, bundle, inbox, handoff, copies>>

Load(w) ==
    /\ xfer[w].at = "written" /\ Delivers(xfer[w])
    /\ Bundle(w) \in Content
    /\ xfer' = [xfer EXCEPT ![w].at = "loaded", ![w].load = Bundle(w)]
    /\ UNCHANGED <<vars, bundle, inbox, handoff, copies>>

WriteInbox(w) ==
    LET x == xfer[w]
        f == IF x.at = "loaded" THEN "context" ELSE "import"
    IN
    /\ x.at \in {"loaded", "context"}
    /\ inbox' = [inbox EXCEPT ![f] = x.load]
    /\ xfer' = [xfer EXCEPT ![w].at = f]
    /\ UNCHANGED <<vars, bundle, handoff, copies>>

CopyMissing(w) ==
    /\ xfer[w].at = "import"
    /\ inbox' = IF inbox["transfer"] = None
                THEN [inbox EXCEPT !["transfer"] = Bundle(w)] ELSE inbox
    /\ xfer' = [xfer EXCEPT ![w].at = "copied"]
    /\ UNCHANGED <<vars, bundle, handoff, copies>>

CopyBundle(w) ==
    /\ xfer[w].at = "import"
    /\ inbox' = [inbox EXCEPT !["transfer"] = Bundle(w)]
    /\ xfer' = [xfer EXCEPT ![w].at = "copied"]
    /\ UNCHANGED <<vars, bundle, handoff, copies>>

\* The messages are stored under the bundle's label in one transaction.
IngestBundle(w) ==
    LET c == xfer[w].load IN
    /\ xfer[w].at = "copied"
    /\ copies' = copies \cup ({c.label} \X c.rows)
    /\ xfer' = [xfer EXCEPT ![w].at = "ingested"]
    /\ UNCHANGED <<vars, bundle, inbox, handoff>>

(***************************************************************************)
(* resume_session goes on only if its own transfer found messages; the     *)
(* inbox has been replaced by then.                                        *)
(***************************************************************************)
Reload(w) ==
    /\ xfer[w].at = "ingested" /\ xfer[w].kind = "resume"
    /\ xfer[w].floor # {}
    /\ Bundle(w) \in Content
    /\ xfer' = [xfer EXCEPT ![w].at = "reloaded", ![w].load = Bundle(w)]
    /\ UNCHANGED <<vars, bundle, inbox, handoff, copies>>

WriteHandoff(w) ==
    /\ xfer[w].at = "reloaded"
    /\ handoff' = xfer[w].load
    /\ xfer' = [xfer EXCEPT ![w].at = "handed"]
    /\ UNCHANGED <<vars, bundle, inbox, copies>>

\* The command has returned, or an error or a kill ends it before that.
TransferEnds(w) ==
    /\ w \in Active
    /\ xfer' = [xfer EXCEPT ![w] = Gone]
    /\ UNCHANGED <<vars, bundle, inbox, handoff, copies>>

TransferStep(w) ==
    \/ ReadRows(w) \/ FindBundle(w)
    \/ OpenBundle(w) \/ WriteBundle(w)
    \/ Load(w) \/ WriteInbox(w) \/ CopyBundle(w) \/ IngestBundle(w)
    \/ Reload(w) \/ WriteHandoff(w)
    \/ TransferEnds(w)

TransferNext == \/ Next /\ UNCHANGED transferVars
                \/ \E w \in Worker : TransferStep(w)

TransferSpec ==
    Init /\ TransferInit /\ [][TransferNext]_<<vars, transferVars>>

(***************************************************************************)
(* Types.                                                                  *)
(***************************************************************************)
TransferTypeOK ==
    /\ bundle \in [Path -> Content \cup {Empty, Mixed, None}]
    /\ inbox \in [Files -> Content \cup {Empty, Mixed, None}]
    /\ handoff \in Content \cup {None}
    /\ copies \subseteq Label \X Entry
    /\ xfer \in [Worker -> {NotBegun, Gone} \cup Xfer]

HasReturned(x) == x \notin {NotBegun, Gone} /\ x.at = LastPhase[x.kind]

(***************************************************************************)
(* A transfer that ran to its end has stored the conversation under the    *)
(* target: not always all that it read, since a transfer of the same       *)
(* conversation that read earlier may have replaced the bundle in between, *)
(* but everything that was there when the earliest transfer under way at   *)
(* that time had read.  Nothing is promised when another conversation      *)
(* shares the name of the bundle (transfer_with_report,                    *)
(* deliver_transfer_bundle).                                               *)
(***************************************************************************)
TransferWhole ==
    \A w \in Worker : LET x == xfer[w] IN
        HasReturned(x) /\ x.kind \in {"go", "resume"} =>
            {x.label} \X x.early \subseteq copies

(***************************************************************************)
(* When a command returns and no other was under way since it began, the   *)
(* bundle, the files of the inbox, what was stored under the target and    *)
(* the handoff are all of one and the same transfer                        *)
(* (deliver_transfer_bundle, write_handoff_files).                         *)
(***************************************************************************)
InboxAgrees ==
    \A w \in Worker : LET x == xfer[w] IN
        HasReturned(x) /\ x.solo =>
            LET c == IF x.kind = "deliver" THEN x.load
                     ELSE [label |-> x.label, rows |-> x.floor]
            IN
            /\ bundle[PathOf[x.label]] = c
            /\ Delivers(x) =>
                  /\ \A f \in Files : inbox[f] = c
                  /\ {c.label} \X c.rows \subseteq copies
            /\ x.kind = "resume" => handoff = c
=============================================================================
