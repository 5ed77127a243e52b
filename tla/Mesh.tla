-------------------------------- MODULE Mesh --------------------------------
(***************************************************************************)
(* What the processes of one user do to a project at the same time: the    *)
(* operations of ProjectMesh, searches, transfers, imports of an old       *)
(* database, the ingestion of Aider's histories and changes of the key, on *)
(* the same messages, vectors and files.                                   *)
(***************************************************************************)
EXTENDS MeshSearch, Transfer, LegacyImport, AiderHistory, KeyFiles

meshVars == <<vars, ask, transferVars, legacyVars, aiderVars, keyVars>>

MeshInit ==
    SearchInit /\ TransferInit /\ LegacyInit /\ AiderInit /\ KeyInit

MeshNext ==
    \/ Next
       /\ UNCHANGED <<ask, transferVars, legacyVars, aiderVars, keyVars>>
    \/ \E w \in Worker :
          \/ /\ Search(w)
             /\ UNCHANGED <<transferVars, legacyVars, aiderVars, keyVars>>
          \/ /\ TransferStep(w)
             /\ UNCHANGED <<ask, legacyVars, aiderVars, keyVars>>
          \/ /\ LegacyStep(w)
             /\ UNCHANGED <<ask, transferVars, aiderVars, keyVars>>
    \/ AiderNext /\ UNCHANGED <<ask, transferVars, legacyVars, keyVars>>
    \/ KeyNext /\ UNCHANGED <<ask, transferVars, legacyVars, aiderVars>>

MeshSpec == MeshInit /\ [][MeshNext]_meshVars

\* Types of the whole.
MeshTypeOK ==
    /\ SearchTypeOK /\ TransferTypeOK /\ LegacyTypeOK
    /\ AiderTypeOK /\ KeyTypeOK
=============================================================================
