------------------------------- MODULE WorkLedger -------------------------------
(***************************************************************************)
(* What a parcrypt project promises about its work units, seen from        *)
(* outside: a unit is handed to a client any number of times, its result   *)
(* is accepted only after that, and an accepted result is final.  Blocks,  *)
(* expiry, tables and request handlers do not appear here; BruteForceDB    *)
(* implements this specification.                                          *)
(***************************************************************************)
CONSTANT Units        \* the ids of all work units

VARIABLES sent,       \* units a client has received at least once
          finished    \* units whose completion is on record

ledgerVars == <<sent, finished>>

LedgerTypeOK == sent \subseteq Units /\ finished \subseteq Units

LedgerInit == sent = {} /\ finished = {}

Send(u) == sent' = sent \cup {u} /\ UNCHANGED finished

Finish(u) ==
  /\ u \in sent
  /\ finished' = finished \cup {u}
  /\ UNCHANGED sent

LedgerNext == \E u \in Units : Send(u) \/ Finish(u)

LedgerSpec == LedgerInit /\ [][LedgerNext]_ledgerVars

=================================================================================
