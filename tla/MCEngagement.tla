---------------------------- MODULE MCEngagement ----------------------------
(***************************************************************************)
(* Instances of Engagement for TLC.                                        *)
(***************************************************************************)
EXTENDS Engagement

\* What a process reported, and the histories of single phases, decide nothing
\* in the whole engagement and occur in none of its properties but TypeOK:
\* soutcome, imported, coutcome, stale, listed, errs.
Decisive == <<spc, scancelled, left, unwound, manRules, hostVars, fileVars, original,
              cpc, ccancelled, waited, age, todo, disabled, man,
              networkVars, recordVars, payloadVars, teardownVars, forgotten>>

=============================================================================
