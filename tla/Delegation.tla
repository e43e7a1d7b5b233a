----------------------------- MODULE Delegation -----------------------------
(***************************************************************************)
(* Delegated authority of the identity package: delegation.js (grant,      *)
(* token, signed action, verifyChain, makeAuthorizer) with its in-memory   *)
(* NonceRegistry or the DurableNonceRegistry of durable-nonce-registry.js. *)
(* verify awaits the signature checks, so calls overlap each other, the    *)
(* burning of tokens, the clock and restarts of the process.               *)
(*                                                                         *)
(* A key is its holder; a signature is the holder who made it and what was *)
(* signed, so it verifies under that holder's key and for that content.    *)
(***************************************************************************)
EXTENDS Naturals, FiniteSets

CONSTANTS
  Root,         \* policy.rootAddress
  Aud,          \* policy.aud
  Grant,        \* minted grants: [root, by, coordinator, scope, nbf, exp]
  Token,        \* minted tokens: [grant, coordinator, by, agent, aud, scope, nbf, exp]
  Action, Nonce,
  Call,         \* calls of verify that may be under way at once
  SweepEvery,   \* inserts between sweeps, 1024 in the code
  MaxClock, MaxCalls, MaxRestart

VARIABLES
  clock,        \* nowSec
  durable,      \* the registry is the one over SQLite
  used,         \* the pairs of the registry, each with the expiry of its token
  sweep,        \* _sweepAt, or _sinceSweep of the durable one
  burned,       \* RevocationSet
  call,         \* what each call of verify is about to do
  granted,      \* history: how often a pair authorised an action
  excused,      \* history: pairs whose replay is documented, or outlived its token (see OncePerNonce)
  callsMade, restarts

delegationVars == <<clock, durable, used, sweep, burned, call, granted, excused, callsMade, restarts>>

NoCall == [at |-> "idle"]
Pair == Token \X Nonce
Presentation == [grant : Grant, token : Token, action : Action, signer : {t.agent : t \in Token}, nonce : Nonce]

----------------------------------------------------------------------------
(* verifyChain                                                             *)

\* Tier 1: the grant is signed under its own root key, the root is the trusted one, now is within.
GrantHolds(p, now) ==
  /\ p.grant.by = p.grant.root
  /\ p.grant.root = Root
  /\ now \in p.grant.nbf .. p.grant.exp

\* Mutant: the token is not bound to the grant it is presented with.
TokenHoldsAnyGrant(p, now) ==
  /\ p.token.by = p.token.coordinator
  /\ p.token.coordinator = p.grant.coordinator
  /\ now \in p.token.nbf .. p.token.exp
  /\ p.token.scope \subseteq p.grant.scope
  /\ p.action \in p.token.scope
  /\ p.token.aud = Aud

\* Tier 2: signed by the coordinator of this grant, for this grant, now within, the scope attenuated.
TokenHolds(p, now) ==
  /\ p.token.by = p.token.coordinator
  /\ p.token.coordinator = p.grant.coordinator
  /\ p.token.grant = p.grant
  /\ now \in p.token.nbf .. p.token.exp
  /\ p.token.scope \subseteq p.grant.scope
  /\ p.action \in p.token.scope
  /\ p.token.aud = Aud

\* Tier 3: the agent of the token signed this action with this nonce.
ActionHolds(p) == p.signer = p.token.agent

----------------------------------------------------------------------------
Init ==
  /\ clock = 0 /\ durable \in BOOLEAN
  /\ used = {} /\ sweep = 0 /\ burned = {}
  /\ call = [c \in Call |-> NoCall]
  /\ granted = [pair \in Pair |-> 0] /\ excused = {}
  /\ callsMade = 0 /\ restarts = 0

\* authorizer.verify: verifyChain reads the clock, and awaits the signature of the grant.
Verify(c, p) ==
  /\ call[c] = NoCall
  /\ callsMade < MaxCalls
  /\ callsMade' = callsMade + 1
  /\ call' = [call EXCEPT ![c] = [at |-> "chain", pres |-> p, now |-> clock, live |-> p.token \notin burned]]
  /\ UNCHANGED <<clock, durable, used, sweep, burned, granted, excused, restarts>>

\* Mutant: the burned set is not asked.
CheckChainUnrevoked(c) ==
  LET v == call[c]
  IN  /\ v.at = "chain"
      /\ call' = [call EXCEPT ![c] =
                    IF GrantHolds(v.pres, v.now) /\ TokenHolds(v.pres, v.now)
                    THEN [v EXCEPT !.at = "action"] ELSE NoCall]
      /\ UNCHANGED <<clock, durable, used, sweep, burned, granted, excused, callsMade, restarts>>

\* After the awaits of both signatures: the checks of tiers 1 and 2 against the clock read at the
\* start, and the burned set as it is now; then the attestation and the last signature are awaited.
CheckChain(c) ==
  LET v == call[c]
  IN  /\ v.at = "chain"
      /\ call' = [call EXCEPT ![c] =
                    IF /\ GrantHolds(v.pres, v.now)
                       /\ TokenHolds(v.pres, v.now)
                       /\ v.pres.token \notin burned
                    THEN [v EXCEPT !.at = "action"] ELSE NoCall]
      /\ UNCHANGED <<clock, durable, used, sweep, burned, granted, excused, callsMade, restarts>>

\* _maybeSweep by the size of the map, or the sweep of the durable table by the inserts.
Due(u) == IF durable THEN sweep + 1 >= SweepEvery ELSE Cardinality(u) >= sweep
Swept(u) == IF Due(u) THEN {e \in u : e.exp = 0 \/ e.exp >= clock} ELSE u
NextSweep(u) == CASE durable -> IF Due(u) THEN 0 ELSE sweep + 1
                  [] OTHER -> IF Due(u) THEN Cardinality(Swept(u)) + SweepEvery ELSE sweep

\* Mutant: a sweep also takes the tokens that expire in this very second.
ConsumedEarly(u, t, n) ==
  IF Due(u \cup {[token |-> t, nonce |-> n, exp |-> t.exp]})
  THEN {e \in u \cup {[token |-> t, nonce |-> n, exp |-> t.exp]} : e.exp = 0 \/ e.exp > clock}
  ELSE u \cup {[token |-> t, nonce |-> n, exp |-> t.exp]}

\* consume of a pair that is not there: insert it, then sweep what has expired.
Consumed(u, t, n) == Swept(u \cup {[token |-> t, nonce |-> n, exp |-> t.exp]})

\* The action signature verified: consume in the same turn, or action-replayed.
Authorise(c) ==
  LET v == call[c]
      pair == <<v.pres.token, v.pres.nonce>>
      after == used \cup {[token |-> pair[1], nonce |-> pair[2], exp |-> pair[1].exp]}
  IN  /\ v.at = "action"
      /\ call' = [call EXCEPT ![c] = NoCall]
      /\ IF ActionHolds(v.pres) /\ ~\E e \in used : e.token = pair[1] /\ e.nonce = pair[2]
         THEN /\ used' = Consumed(used, pair[1], pair[2])
              /\ sweep' = NextSweep(after)
              /\ granted' = [granted EXCEPT ![pair] = @ + 1]
              /\ excused' = IF clock > pair[1].exp THEN excused \cup {pair} ELSE excused
         ELSE UNCHANGED <<used, sweep, granted, excused>>
      /\ UNCHANGED <<clock, durable, burned, callsMade, restarts>>

\* burn: the token is dead for every check made from now on.
Burn(t) ==
  /\ t \notin burned
  /\ burned' = burned \cup {t}
  /\ UNCHANGED <<clock, durable, used, sweep, call, granted, excused, callsMade, restarts>>

Tick ==
  /\ clock < MaxClock
  /\ clock' = clock + 1
  /\ UNCHANGED <<durable, used, sweep, burned, call, granted, excused, callsMade, restarts>>

\* A restart drops what is in memory; a deployment backs the burned set with a durable store.
Restart ==
  /\ restarts < MaxRestart
  /\ restarts' = restarts + 1
  /\ call' = [c \in Call |-> NoCall]
  /\ used' = IF durable THEN used ELSE {}
  /\ sweep' = 0
  /\ excused' = IF durable THEN excused ELSE excused \cup {pair \in Pair : granted[pair] > 0}
  /\ UNCHANGED <<clock, durable, burned, granted, callsMade>>

Next == \/ \E c \in Call : (\E p \in Presentation : Verify(c, p)) \/ CheckChain(c) \/ Authorise(c)
        \/ \E t \in Token : Burn(t)
        \/ Tick \/ Restart

DelegationSpec == Init /\ [][Next]_delegationVars

----------------------------------------------------------------------------
\* One signed action authorises once, though calls overlap and expired entries are swept: with the
\* durable registry through restarts too.  Excused is a pair of the in-memory registry that was used
\* before a restart, and one that a call presented in time still used after its token had expired
\* (verifyChain reads the clock once, at its start, while a sweep reads it later).
OncePerNonce == \A pair \in Pair \ excused : granted[pair] <= 1

\* makeAuthorizer: "two concurrent calls with one nonce cannot both pass".
NeverBoth == \A pair \in Pair : granted[pair] <= 1

\* What a call may authorise was delegated hop by hop: the grant the token was minted under comes
\* from the trusted root, covers the action and was valid when the call began, and the agent signed.
Delegated ==
  \A c \in Call : call[c].at = "action" =>
    LET p == call[c].pres
    IN  /\ p.action \in p.token.grant.scope \cap p.token.scope
        /\ p.token.grant.root = Root /\ p.token.grant.by = Root
        /\ call[c].now <= p.token.grant.exp
        /\ call[c].now <= p.token.exp

\* A call that began after the token was burned gets no further than the chain.
BurnedStops == \A c \in Call : call[c].at = "action" => call[c].live
=============================================================================
