---------------------------- MODULE AiderHistory ----------------------------
(***************************************************************************)
(* The history files that Aider appends to, and their ingestion            *)
(* (providers/aider.py).  A sync reads the whole file, parses it line by   *)
(* line into turns, and inserts the turns in one transaction; the file     *)
(* grows meanwhile and is read again by later syncs.  A turn is recognised *)
(* by its source key: its ordinal, its role and its text.                  *)
(*                                                                         *)
(* A line is its kind and its place in the file, and the text of a turn    *)
(* the lines it consists of.  Aider appends whole lines; what follows a    *)
(* marker is not blank, and the date of a session can be read.             *)
(***************************************************************************)
EXTENDS ProjectMesh, SequencesExt

CONSTANT MaxLines   \* bound on the length of a history

(***************************************************************************)
(* Lines of a chat history: "####" of the user, ">" of a tool, text, blank,*)
(* "```", the beginning of a session, and other headings.  Lines of an     *)
(* input history: a date, "+" with text and without, and others.           *)
(***************************************************************************)
LineKinds == [chat |-> {"user", "tool", "text", "blank", "fence", "session",
                    "heading"},
          input |-> {"session", "text", "blank", "other"}]

ASSUME AiderAssumption == MaxLines \in Nat /\ None \notin DOMAIN LineKinds

VARIABLES
    history,    \* the file: its format, None before there is one, and its lines
    turns,      \* the turns that are stored
    reading     \* the turns that each worker has parsed

aiderVars == <<history, turns, reading>>

Line == [kind : LineKinds.chat \cup LineKinds.input, at : 1..MaxLines]
Roles == {"user", "assistant", "tool"}

AiderInit ==
    /\ history = [format |-> None, lines |-> <<>>]
    /\ turns = {}
    /\ reading = [w \in Worker |-> None]

(***************************************************************************)
(* The lines collected under a role become a turn, if they are not blank;  *)
(* blank lines at both ends are stripped.                                  *)
(***************************************************************************)
Nonblank(ls) == {n \in DOMAIN ls : ls[n].kind # "blank"}

Strip(ls) ==
    LET used == Nonblank(ls) IN
    SubSeq(ls, CHOOSE n \in used : \A m \in used : n <= m,
               CHOOSE n \in used : \A m \in used : m <= n)

Flush(s, role) ==
    IF Nonblank(s[role]) = {} THEN [s EXCEPT ![role] = <<>>]
    ELSE [s EXCEPT ![role] = <<>>,
              !.turns = Append(@, [role |-> role, content |-> Strip(s[role]),
                                   stamp |-> s.stamp])]

\* The role that is being collected, the assistant if none is.
Collecting(s) == IF s.user # <<>> THEN "user"
             ELSE IF s.tool # <<>> THEN "tool" ELSE "assistant"

Collect(s, role, l) == [s EXCEPT ![role] = Append(@, l)]

ChatLineKeepsTool(s, l) ==
    CASE l.kind = "fence" -> [Collect(s, Collecting(s), l) EXCEPT !.fence = ~@]
      [] l.kind # "fence" /\ s.fence -> Collect(s, Collecting(s), l)
      [] ~s.fence /\ l.kind = "session" -> [s EXCEPT !.stamp = l.at]
      [] ~s.fence /\ l.kind = "heading" -> s
      [] ~s.fence /\ l.kind = "tool" ->
            Collect(Flush(Flush(s, "assistant"), "user"), "tool", l)
      [] ~s.fence /\ l.kind = "user" ->
            Collect(Flush(Flush(s, "assistant"), "tool"), "user", l)
      [] ~s.fence /\ l.kind \in {"text", "blank"} ->
            Collect(Flush(s, "user"), "assistant", l)

(***************************************************************************)
(* parse_aider_chat_history.  In a code fence every line belongs to the    *)
(* turn that it began in; outside, a marker ends the turns of other roles. *)
(***************************************************************************)
ChatLine(s, l) ==
    CASE l.kind = "fence" -> [Collect(s, Collecting(s), l) EXCEPT !.fence = ~@]
      [] l.kind # "fence" /\ s.fence -> Collect(s, Collecting(s), l)
      [] ~s.fence /\ l.kind = "session" -> [s EXCEPT !.stamp = l.at]
      [] ~s.fence /\ l.kind = "heading" -> s
      [] ~s.fence /\ l.kind = "tool" ->
            Collect(Flush(Flush(s, "assistant"), "user"), "tool", l)
      [] ~s.fence /\ l.kind = "user" ->
            Collect(Flush(Flush(s, "assistant"), "tool"), "user", l)
      [] ~s.fence /\ l.kind \in {"text", "blank"} ->
            Collect(Flush(Flush(s, "user"), "tool"), "assistant", l)

NothingParsed == [user |-> <<>>, assistant |-> <<>>, tool |-> <<>>,
                  fence |-> FALSE, stamp |-> 0, turns |-> <<>>]

ChatTurns(s) == Flush(Flush(Flush(s, "assistant"), "user"), "tool").turns

(***************************************************************************)
(* parse_aider_input_history: a date ends the entry before it, and holds   *)
(* for the next entry only.                                                *)
(***************************************************************************)
FlushEntry(s) == [Flush(s, "user") EXCEPT !.stamp = 0]

InputLine(s, l) ==
    CASE l.kind = "session" -> [FlushEntry(s) EXCEPT !.stamp = l.at]
      [] l.kind \in {"text", "blank"} -> Collect(s, "user", l)
      [] l.kind = "other" -> s

InputTurns(s) == FlushEntry(s).turns

(***************************************************************************)
(* The loops over the lines of a file, and parse_aider_file.               *)
(***************************************************************************)
ParseLine(format, s, l) ==
    IF format = "chat" THEN ChatLine(s, l) ELSE InputLine(s, l)

Parsed(format, ls) ==
    LET after[n \in 0..Len(ls)] ==
            IF n = 0 THEN NothingParsed
            ELSE ParseLine(format, after[n - 1], ls[n])
    IN after[Len(ls)]

Turns ==
    LET s == Parsed(history.format, history.lines) IN
    IF history.format = "chat" THEN ChatTurns(s) ELSE InputTurns(s)

(***************************************************************************)
(* Actions.                                                                *)
(***************************************************************************)
AppendLine ==
    /\ \E w \in Worker : "aider" \in ops[w]
    /\ Len(history.lines) < MaxLines
    /\ \E f \in DOMAIN LineKinds : \E k \in LineKinds[f] :
          /\ history.format \in {None, f}
          /\ history' = [format |-> f,
                         lines |-> Append(history.lines,
                             [kind |-> k, at |-> Len(history.lines) + 1])]
    /\ UNCHANGED <<vars, turns, reading>>

ReadHistory(w) ==
    /\ "aider" \in ops[w] /\ reading[w] = None
    /\ history.format # None
    /\ reading' = [reading EXCEPT ![w] = Turns]
    /\ UNCHANGED <<vars, history, turns>>

SourceKey(t) == <<t.ordinal, t.role, t.content>>

\* A turn whose key is stored is ignored.  "closed" says, as a history, that
\* another turn followed.
StoreTurns(w) ==
    /\ reading[w] # None
    /\ LET new == {[ordinal |-> n, role |-> reading[w][n].role,
                    content |-> reading[w][n].content,
                    stamp |-> reading[w][n].stamp,
                    closed |-> n < Len(reading[w])] : n \in DOMAIN reading[w]}
           known == {SourceKey(t) : t \in turns}
       IN turns' = turns \cup {t \in new : SourceKey(t) \notin known}
    /\ reading' = [reading EXCEPT ![w] = None]
    /\ UNCHANGED <<vars, history>>

\* The file fails, or the process is killed.
HistoryFails(w) ==
    /\ reading[w] # None
    /\ reading' = [reading EXCEPT ![w] = None]
    /\ UNCHANGED <<vars, history, turns>>

AiderNext ==
    \/ AppendLine
    \/ \E w \in Worker : ReadHistory(w) \/ StoreTurns(w) \/ HistoryFails(w)

(***************************************************************************)
(* Types.                                                                  *)
(***************************************************************************)
Turn == [role : Roles, content : Seq(Line), stamp : 0..MaxLines]

AiderTypeOK ==
    /\ history.format \in {"chat", "input", None}
    /\ history.lines \in Seq(Line)
    /\ \A t \in turns : /\ t.ordinal \in 1..MaxLines
                        /\ t.closed \in BOOLEAN
                        /\ [role |-> t.role, content |-> t.content,
                            stamp |-> t.stamp] \in Turn
    /\ \A w \in Worker : reading[w] # None => reading[w] \in Seq(Turn)

(***************************************************************************)
(* Reading a history again and again while it grows does not shift its     *)
(* turns.  A stored turn is a turn of the file as it is now, with the same *)
(* ordinal and role, and its text is at least the beginning of that turn's *)
(* text.  A turn that was followed by another one when it was stored is    *)
(* stored as it is now, date included, and the only one of its ordinal     *)
(* that is.  And the turns are the file: every line that is neither blank  *)
(* nor a heading outside a fence is in one of them, in order               *)
(* (parse_aider_chat_history, source_key_for_turn).                        *)
(***************************************************************************)
InFence(n) ==
    Cardinality({m \in 1..(n - 1) : history.lines[m].kind = "fence"}) % 2 = 1

Kept(l) ==
    CASE history.format = "input" -> l.kind = "text"
      [] history.format = "chat" ->
            /\ l.kind # "blank"
            /\ l.kind \in {"session", "heading"} => InFence(l.at)

\* The lines of the turns that are not blank.
LinesIn(ts) ==
    UNION {{l \in Range(t.content) : l.kind # "blank"} : t \in Range(ts)}

\* From the first line of the first turn to the last of the last, each line
\* is from a later place in the file.
InOrder(ts) ==
    \A m, n \in DOMAIN ts :
       \A j \in DOMAIN ts[m].content, k \in DOMAIN ts[n].content :
          m < n \/ (m = n /\ j < k) => ts[m].content[j].at < ts[n].content[k].at

TurnsStay ==
    LET now == Turns IN
    /\ \A t \in turns :
          /\ t.ordinal \in DOMAIN now
          /\ now[t.ordinal].role = t.role
          /\ IsPrefix(t.content, now[t.ordinal].content)
          /\ t.closed => /\ now[t.ordinal].content = t.content
                         /\ now[t.ordinal].stamp = t.stamp
    /\ InOrder(now)
    /\ LinesIn(now) = {l \in Range(history.lines) : Kept(l)}
=============================================================================
