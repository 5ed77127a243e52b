----------------------------- MODULE MCMeshStore -----------------------------
(* Instances of MeshStore for TLC. *)
EXTENDS MeshStore, TLC

\* Processes, contents and keys are interchangeable in every action and
\* property.
Symmetry == Permutations(Client) \cup Permutations(Admin)
            \cup Permutations(Content) \cup Permutations(Key)

\* No guard and none of the properties of the run that uses this view reads
\* the histories acked and claimed.
WithoutBook == <<files, made, sidecar, spoiled, residue, ctx, conn, lock, admin,
                 vacuumed>>
=============================================================================
