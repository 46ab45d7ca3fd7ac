---------------------------- MODULE MCWriteEngine ----------------------------
(* Small instances of WriteEngine for TLC.                                  *)
EXTENDS WriteEngine, TLC

CONSTANTS j1, j2, s1, s2, alice, bob, p1, p2, o1, o2

\* One student with two logins, resubmitting one batch.
SameOwner == [s \in Sessions |-> alice]
OneBatchOwner == [p \in Payloads |-> alice]

\* Two students, one login and one batch each.
TwoOwners == s1 :> alice @@ s2 :> bob
TwoBatchOwners == [p \in Payloads |-> IF p = p1 THEN alice ELSE bob]

AllOps == [p \in Payloads |-> Ops]

\* The batch carries 課別代號, slt_result lists 課程代碼: two vocabularies.
MCCodes == {"no", "code"} \X Ops
MCNoOf == [o \in Ops |-> <<"no", o>>]
MCCodeOf == [o \in Ops |-> <<"code", o>>]

Symmetry == Permutations(Jobs) \cup Permutations(Requests)
=============================================================================
