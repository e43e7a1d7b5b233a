------------------------------ MODULE BlockLife ------------------------------
(***************************************************************************)
(* What the ledger promises about one node's blocks: a block moves up, from *)
(* out to pooled to faced to sealed, and once sealed it stays, except that *)
(* a canonical rebuild may take the whole chain down and put it up again.   *)
(* Below the sealed stage a block may fall by an eviction, and a restart   *)
(* puts it where the store says: lower when a seal was interrupted, higher *)
(* when the store still names what memory had dropped.                     *)
(***************************************************************************)
EXTENDS Naturals, FiniteSets

CONSTANTS Key, FaceSize, CubeSize

VARIABLES
  home,        \* where each block is
  rebuilding,  \* whether a rebuild has taken the chain down and not yet put it up
  boots        \* how often the node restarted

lifeVars == <<home, rebuilding, boots>>

Height == [out |-> 0, pooled |-> 1, faced |-> 2, sealed |-> 3]
Home == DOMAIN Height

Init == home = [k \in Key |-> "out"] /\ rebuilding = FALSE /\ boots = 0

Raise(S, h) == home' = [k \in Key |-> IF k \in S THEN h ELSE home[k]]
Below(h, n) == {S \in SUBSET {k \in Key : Height[home[k]] < Height[h]} : Cardinality(S) \in 1 .. n}

Enter == \E S \in Below("pooled", 1) : Raise(S, "pooled")
Face  == \E S \in Below("faced", FaceSize) : Raise(S, "faced")
Seal  == \E S \in Below("sealed", CubeSize) : Raise(S, "sealed")

Fall == \A k \in Key : IF home[k] = "sealed" THEN home'[k] = "sealed"
                                             ELSE Height[home'[k]] =< Height[home[k]]

Rise == (Enter \/ Face \/ Seal \/ Fall) /\ UNCHANGED <<rebuilding, boots>>

Wipe ==
  /\ rebuilding' = TRUE
  /\ \A k \in Key : Height[home'[k]] =< Height[home[k]]
  /\ UNCHANGED boots

Regrow ==
  /\ rebuilding /\ rebuilding' = FALSE
  /\ \A k \in Key : home[k] = "sealed" => home'[k] = "sealed"
  /\ UNCHANGED boots

\* A restart neither seals a block nor takes a sealed one down.
Restart ==
  /\ boots' = boots + 1
  /\ rebuilding' = FALSE
  /\ \A k \in Key : home'[k] = "sealed" <=> home[k] = "sealed"

Next == home' \in [Key -> Home] /\ (Rise \/ Wipe \/ Regrow \/ Restart)

LifeSpec == Init /\ [][Next]_lifeVars

=============================================================================
