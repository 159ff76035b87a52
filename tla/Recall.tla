------------------------------- MODULE Recall -------------------------------
(***************************************************************************)
(* art_recall over the two lanes (art-retrieval lib.rs `recall',           *)
(* semantic.rs, and the searches of the two vaults): lexical, full scan,   *)
(* semantic and hybrid, with the semantic modes falling back to lexical    *)
(* when the lanes are no longer what the vectors were made from.           *)
(*                                                                         *)
(* A request reads the lanes one SELECT after another.  No change is of    *)
(* both lanes, so that a read of one and the next read of the other are    *)
(* one step here.  The query matches everything: what it does not match    *)
(* could as well be missing.  Ranks, caps, excerpts and cautions are left  *)
(* out.                                                                    *)
(***************************************************************************)
EXTENDS Navigation

VARIABLE recall    \* the request in progress; none writes, so one will do

vars == <<laneVars, mapVars, recall>>

Modes == {"lexical", "full_scan", "semantic", "hybrid"}
Vectors == {"semantic", "hybrid"}

(* Besides what the code keeps: what was retired before the request began, *)
(* and whether anything has changed, or was revoked, since.                *)
NoRecall == [step |-> "none", asked |-> "none", mode |-> "none", candidates |-> FALSE,
             part |-> None, lapsed |-> {}, admitted |-> {}, hits |-> {}, ranked |-> {},
             memories |-> {}, extras |-> {}, editions |-> {},
             retired |-> {}, since |-> "nothing"]

On(s) == recall.step = s
Finished == recall.step \in {"none", "done", "failed"}

-----------------------------------------------------------------------------
(* What is read *)

(* semantic_index_epoch: what is active and valid by now                   *)
SemanticContents == {<<m, rows[m]>> : m \in {n \in Memories : Live(n) /\ n \notin expired}}

(* SemanticRuntime::open: the epochs are those the server has started at,  *)
(* for which both projections were complete.                               *)
RuntimePrivate == {<<m, FirstRows[m]>> : m \in {n \in Memories : FirstRows[n].state = "active"}}
RuntimeShared == <<[e \in Editions |-> FirstRows[e]], 0>>
RuntimeMemories == {<<x[1], x[2].revision>> : x \in RuntimePrivate}
RuntimeEditions == {e \in Editions : FirstRows[e].state = "active"}

Ref(m) == <<m, rows[m].revision>>
Refs(s, lapsed) == {Ref(m) : m \in {n \in Memories : rows[n].state = s /\ n \notin lapsed}}
Current == {e \in Editions : Live(e)}

(* Memories that search_ranked_eligible_candidates or list finds, as far   *)
(* as eligible_memory lets them through: `lapsed' is when it was asked.    *)
Found_AnyStatus(s, lapsed) == {Ref(m) : m \in {n \in Memories : rows[n].state # "none"}}
Found(s, lapsed) == Refs(s, lapsed)
CandidatesFound(lapsed) == IF recall.candidates THEN Refs("candidate", lapsed) ELSE {}

(* read, of an id that a SELECT has returned *)
CanRead_Current(S) == \A e \in S : Live(e)
CanRead(S) == \A e \in S : rows[e].state # "retired"

-----------------------------------------------------------------------------
(* A request begins with a mode.  What vectors are asked for compares the  *)
(* epochs of the runtime with those of the lanes, which it does again      *)
(* after the ranking and at the end.                                       *)

Ask(mode, candidates) ==
    /\ focus = "recall" /\ Finished
    /\ recall' = [NoRecall EXCEPT
           !.step = IF mode \in Vectors THEN "first" ELSE "memories",
           !.asked = mode, !.mode = mode, !.candidates = candidates, !.lapsed = expired,
           !.retired = {i \in Items : rows[i].state = "retired"}]

ReadEpochs ==
    /\ recall.step \in {"first", "second", "third"} /\ recall.part = None
    /\ recall' = [recall EXCEPT !.part = <<SemanticContents, Contents("shared")>>]

(* The events are read last.                                               *)
Compared(s) == On(s) /\ recall.part # None
EpochsMatch == /\ recall.part[1] = RuntimePrivate
               /\ <<recall.part[2], events["shared"]>> = RuntimeShared

(* The recursive call, and the other ways down to lexical *)
Lexical_SameMode == [recall EXCEPT !.step = "memories", !.part = None, !.lapsed = expired,
                         !.hits = {}, !.ranked = {}]
Lexical == [recall EXCEPT !.step = "memories", !.mode = "lexical", !.part = None,
                !.lapsed = expired, !.hits = {}, !.ranked = {},
                !.memories = {}, !.extras = {}, !.editions = {}]

(* private_admitted *)
Admit ==
    /\ Compared("first")
    /\ recall' = IF EpochsMatch
                 THEN [recall EXCEPT !.step = "ids", !.part = None, !.lapsed = expired,
                                     !.admitted = Refs("active", expired)]
                 ELSE Lexical

(* knowledge_admitted, by list_current *)
ReadIds ==
    /\ On("ids")
    /\ recall' = [recall EXCEPT !.step = "rank", !.part = Current]

(* rank: the projections, from which only what is admitted is taken; or    *)
(* the provider fails, or a projection has been replaced.                  *)
Rank ==
    /\ On("rank")
    /\ IF ~CanRead(recall.part) THEN recall' = [recall EXCEPT !.step = "failed"]
       ELSE \/ recall' = [recall EXCEPT !.step = "second", !.part = None,
                              !.hits = RuntimeMemories \cap recall.admitted,
                              !.ranked = RuntimeEditions \cap recall.part]
            \/ recall' = Lexical

-----------------------------------------------------------------------------
(* The memories *)

Searched(mode, s) ==
    [recall EXCEPT !.step = s, !.mode = mode, !.part = None,
        !.memories = IF mode = "semantic" THEN {} ELSE Found("active", recall.lapsed),
        !.extras = CandidatesFound(recall.lapsed)]

(* Without vectors, or after the ranking: if the lanes have changed by     *)
(* then, the search is lexical, as of the time that was taken before.      *)
SearchMemories ==
    \/ On("memories") /\ recall' = Searched(recall.mode, "editions")
    \/ /\ Compared("second")
       /\ recall' = IF EpochsMatch THEN Searched(recall.mode, "hits")
                    ELSE [Searched("lexical", "editions") EXCEPT !.hits = {}, !.ranked = {}]

(* A hit is read again and must have the revision that was ranked.  If a   *)
(* memory changes between two such reads the last comparison finds out.    *)
HitsRead == recall.hits \cap (Refs("active", recall.lapsed) \cup CandidatesFound(recall.lapsed))

SearchEditions ==
    \/ On("hits") /\ recall' = [recall EXCEPT
           !.step = "hydrate", !.memories = @ \cup HitsRead,
           !.part = IF recall.mode = "semantic" THEN {} ELSE Current]
    \/ On("editions") /\ recall' = [recall EXCEPT !.step = "hydrate", !.part = Current]

-----------------------------------------------------------------------------
(* The editions *)

Hydrate ==
    /\ On("hydrate")
    /\ recall' = IF CanRead(recall.part)
                 THEN [recall EXCEPT !.step = "retain", !.part = None, !.editions = recall.part]
                 ELSE [recall EXCEPT !.step = "failed"]

(* current_edition_ids: keep what is still current, and read the hits that *)
(* are.                                                                    *)
Retain ==
    /\ On("retain")
    /\ recall' = [recall EXCEPT !.editions = @ \cap Current,
                      !.step = IF recall.mode \in Vectors THEN "read" ELSE "done",
                      !.part = IF recall.mode \in Vectors THEN recall.ranked \cap Current ELSE None]

ReadHits ==
    /\ On("read")
    /\ recall' = IF CanRead(recall.part)
                 THEN [recall EXCEPT !.step = "third", !.part = None,
                                     !.editions = @ \cup recall.part]
                 ELSE [recall EXCEPT !.step = "failed"]

(* The comparison at the end: what vectors have found is given only for    *)
(* the lanes they were made from.                                          *)
Finish_Unchecked == [recall EXCEPT !.step = "done", !.part = None]
Finish == IF EpochsMatch THEN [recall EXCEPT !.step = "done", !.part = None] ELSE Lexical
Conclude == Compared("third") /\ recall' = Finish

RecallStep ==
    \/ ReadEpochs \/ Admit \/ ReadIds \/ Rank \/ SearchMemories \/ SearchEditions
    \/ Hydrate \/ Retain \/ ReadHits \/ Conclude

-----------------------------------------------------------------------------
Init == NavigationInit /\ recall = NoRecall

Revoking == \E e \in Editions : rows'[e].state = "retired" /\ rows[e].state # "retired"

Disturb ==
    recall' = IF On("none") THEN recall
              ELSE [recall EXCEPT !.since =
                       IF Revoking \/ @ = "revoked" THEN "revoked" ELSE "changed"]

ChangeLane == Change /\ Disturb /\ UNCHANGED mapVars
Asked(c) == \E op \in {"route", "art_health"} : Request(c, op) /\ UNCHANGED <<laneVars, recall>>
Serve(c) == RouterStep(c) /\ UNCHANGED <<laneVars, recall>>
AskRecall == \E mode \in Modes, b \in BOOLEAN : Ask(mode, b) /\ UNCHANGED <<laneVars, mapVars>>
ServeRecall == RecallStep /\ UNCHANGED <<laneVars, mapVars>>

Next ==
    \/ ChangeLane
    \/ \E c \in Routers : Asked(c) \/ Serve(c)
    \/ AskRecall \/ ServeRecall

Spec == Init /\ [][Next]_vars

(* A request that has been taken up is answered.                           *)
FairSpec == Spec /\ WF_vars(ServeRecall) /\ \A c \in Routers : WF_vars(Serve(c))

-----------------------------------------------------------------------------
(* Properties *)

RecallSteps == {"none", "first", "ids", "rank", "second", "memories", "hits", "editions",
                "hydrate", "retain", "read", "third", "done", "failed"}

TypeOK ==
    /\ NavigationTypeOK
    /\ recall.step \in RecallSteps
    /\ recall.mode \in Modes \cup {"none"}
    /\ recall.part # None =>
           recall.step \in {"first", "second", "third", "rank", "hydrate", "read", "failed"}
    /\ recall.memories \cup recall.extras \cup recall.hits \cup recall.admitted
           \subseteq Memories \X Nat
    /\ recall.editions \cup recall.ranked \subseteq Editions
    /\ recall.since \in {"nothing", "changed", "revoked"}

(* An answer that vectors were used for holds all that they were made from *)
(* and no other edition, whatever has changed while it was put together.   *)
(* A hybrid one may have one kind of memory more: the private epoch is of  *)
(* what is active and valid, so that it misses a memory that became active *)
(* and ceased to be so between two comparisons.                            *)
VectorsExact ==
    On("done") /\ recall.mode \in Vectors =>
        /\ RuntimeMemories \subseteq recall.memories
        /\ \A h \in recall.memories \ RuntimeMemories : ~Live(h[1]) \/ h[1] \in expired
        /\ recall.editions = RuntimeEditions

(* What was revoked, or retired, before a request began is not in its      *)
(* answer, whichever way it goes.                                          *)
RetiredStaysOut ==
    On("done") =>
        recall.retired \cap (recall.editions \cup Ids(recall.memories \cup recall.extras)) = {}

(* If nothing changes meanwhile, every mode, and every way down to         *)
(* lexical, gives everything eligible.                                     *)
UndisturbedComplete ==
    On("done") /\ recall.since = "nothing" =>
        /\ recall.memories = Refs("active", recall.lapsed)
        /\ recall.extras = CandidatesFound(recall.lapsed)
        /\ recall.editions = Current

(* A recall fails, instead of leaving an edition out, only when one was    *)
(* revoked while it was under way: no publication, supersession or rebuild *)
(* makes it fail.                                                          *)
FailsOnRevocationOnly == On("failed") => recall.since = "revoked"
=============================================================================
