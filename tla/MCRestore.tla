------------------------------ MODULE MCRestore ------------------------------
(* A history in which a file is deleted, another one takes its name, and a  *)
(* new chain begins.                                                        *)
EXTENDS RestoreProperties

CONSTANTS f, g, c1, c2

History ==
    LET s0 == FullManifest(0, 1, (f :> c1) @@ (g :> c2))
        s1 == IncManifest(1, 1, s0.id, EmptyMap, {g}, <<>>)
        s2 == IncManifest(2, 1, s1.id, (g :> c1), {}, <<[from |-> f, to |-> g]>>)
        s3 == FullManifest(3, 1, (g :> c2))
    IN  (s0.id :> s0) @@ (s1.id :> s1) @@ (s2.id :> s2) @@ (s3.id :> s3)

\* The first chain alone, or all of it.
Ids(ns) == {id \in DOMAIN History : History[id].createdAt \in ns}
Remotes == {Ids(0..2), Ids(0..3)}

Place(content, known) == [content |-> content, known |-> known]
Vaults == {(f :> Place(c1, FALSE)) @@ (g :> Place(c2, TRUE))}
=============================================================================
