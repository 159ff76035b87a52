--------------------------- MODULE EditionLedger ---------------------------
(***************************************************************************)
(* What the Knowledge Vault promises its readers, with every detail of     *)
(* proposals, reservations, files and recovery left out: an append-only    *)
(* ledger of published Editions in which an edition number is used once    *)
(* per knowledge key, a proposal becomes at most one Edition, and the      *)
(* newest Edition of every key is the one marked current.                  *)
(*                                                                         *)
(* An entry is a record [edition, key, number, proposal].                  *)
(***************************************************************************)
EXTENDS Naturals

VARIABLES
    published,  \* the entries readers can resolve
    newest      \* the entries marked current

ledgerVars == <<published, newest>>

OneNumberPerKey(S) ==
    \A a, b \in S : a.key = b.key /\ a.number = b.number => a = b

OneEntryPerProposal(S) ==
    \A a, b \in S : a.proposal = b.proposal => a = b

NewestOf(S) ==
    {a \in S : \A b \in S : b.key = a.key => b.number <= a.number}

Init ==
    /\ published = {}
    /\ newest = {}

(***************************************************************************)
(* One step publishes one or more entries: a restart may bring several     *)
(* crashed publications to light at once.                                  *)
(***************************************************************************)
Publish ==
    /\ published \subseteq published'
    /\ OneNumberPerKey(published')
    /\ OneEntryPerProposal(published')
    /\ newest' = NewestOf(published')

Spec == Init /\ [][Publish]_ledgerVars
=============================================================================
