------------------------- MODULE SemanticProjection -------------------------
(***************************************************************************)
(* How vectors are built and installed (art-retrieval                      *)
(* semantic_projection.rs, semantic.rs, and `art reindex --vectors' of     *)
(* art-cli main.rs): a snapshot of a lane is embedded batch by batch into  *)
(* a staging file, which an interrupted rebuild leaves for the next one,   *)
(* and which is renamed over the projection that servers rank from.        *)
(*                                                                         *)
(* Here for one lane, with batches of one document.  A document is a       *)
(* memory at a revision or an edition, so that its identity is that of its *)
(* text, and it is live once.  What a recall does with ranks is in module  *)
(* Recall.                                                                 *)
(***************************************************************************)
CONSTANTS
    Documents,   \* document identities
    Endpoints,   \* embedding endpoints, each of which the owner configures once
    Builders     \* processes that run reindex

ASSUME ConstantsAssumption == Endpoints # {} /\ "none" \notin Builders

Unset == "none"

VARIABLES
    live,        \* documents the lane has now
    gone,        \* documents it once had
    endpoint,    \* config/art/embedding/default.json
    former,      \* what it once was
    staging,     \* the .sqlite3.staging file
    projection,  \* the .sqlite3 file
    lock,        \* who holds the exclusive transaction on .sqlite3.lock
    job,         \* a reindex
    reader       \* a server that ranks: what it wants, and the file it has opened

documentVars == <<live, gone, endpoint, former>>
fileVars == <<staging, projection, lock>>
projectionVars == <<documentVars, fileVars, job, reader>>

Snapshots == [endpoint : Endpoints, epoch : SUBSET Documents, documents : SUBSET Documents]
Embeddings == [document : Documents, by : Endpoints]

(* A file says in its metadata what it is made from, unless it was left    *)
(* between the two transactions of create_staging.                         *)
NoFile == [of |-> {}, vectors |-> {}, status |-> Unset]
Files == [of : {{}} \cup {{s} : s \in Snapshots}, vectors : SUBSET Embeddings,
          status : {Unset, "created", "in_progress", "complete"}]

NoJob == [step |-> "idle", of |-> {}]
Building == {"open", "create", "label", "embed", "install"}
NoReader == [of |-> {}, file |-> NoFile]

ProjectionInit ==
    /\ live = {} /\ gone = {}
    /\ endpoint = CHOOSE e \in Endpoints : TRUE
    /\ former = {}
    /\ staging = NoFile
    /\ projection = NoFile
    /\ lock = Unset
    /\ job = [b \in Builders |-> NoJob]
    /\ reader = NoReader

-----------------------------------------------------------------------------
(* What others do meanwhile *)

LaneChanges(d) ==
    /\ \/ d \notin live \cup gone /\ live' = live \cup {d} /\ UNCHANGED gone
       \/ d \in live /\ live' = live \ {d} /\ gone' = gone \cup {d}
    /\ UNCHANGED <<endpoint, former, fileVars, job, reader>>

EndpointChanges(e) ==
    /\ e \notin former \cup {endpoint}
    /\ endpoint' = e /\ former' = former \cup {endpoint}
    /\ UNCHANGED <<live, gone, fileVars, job, reader>>

-----------------------------------------------------------------------------
(* reindex *)

Doing(b, s) == job[b].step = s
Move(b, from, to) == Doing(b, from) /\ job' = [job EXCEPT ![b].step = to]
Of(b) == CHOOSE s \in job[b].of : TRUE
Keep == UNCHANGED <<documentVars, reader>>

(* stable_semantic_snapshot: the epoch, the documents, the epoch again.    *)
(* What the endpoint was is read before.                                   *)
Begin(b) ==
    /\ Doing(b, "idle")
    /\ job' = [job EXCEPT ![b] = [step |-> "collect", of |->
           {[endpoint |-> endpoint, epoch |-> live, documents |-> {}]}]]
    /\ Keep /\ UNCHANGED fileVars

CollectDocuments(b) ==
    /\ Doing(b, "collect")
    /\ job' = [job EXCEPT ![b] = [step |-> "compare", of |->
           {[Of(b) EXCEPT !.documents = live]}]]
    /\ Keep /\ UNCHANGED fileVars

EpochStands(b) == live = Of(b).epoch

Compare(b) ==
    /\ Move(b, "compare", "lock")
    /\ EpochStands(b)
    /\ Keep /\ UNCHANGED fileVars

(* acquire_rebuild_lock does not wait.                                     *)
Lock(b) ==
    /\ lock = Unset
    /\ Move(b, "lock", "open")
    /\ lock' = b
    /\ Keep /\ UNCHANGED <<staging, projection>>

(* open_staging: the build fingerprint is that of endpoint, epoch and      *)
(* documents.                                                              *)
Resumable_SameDocuments(b) ==
    /\ staging.of # {} /\ staging.status = "in_progress"
    /\ {v.document : v \in staging.vectors} \subseteq Of(b).documents
Resumable(b) ==
    /\ staging.of = {Of(b)} /\ staging.status = "in_progress"
    /\ {v.document : v \in staging.vectors} \subseteq Of(b).documents

OpenStaging(b) ==
    /\ Move(b, "open", "embed")
    /\ staging # NoFile /\ Resumable(b)
    /\ Keep /\ UNCHANGED fileVars

RemoveStaging(b) ==
    /\ Move(b, "open", "create")
    /\ staging # NoFile /\ ~Resumable(b)
    /\ staging' = NoFile
    /\ Keep /\ UNCHANGED <<projection, lock>>

CreateStaging(b) ==
    /\ staging = NoFile
    /\ \/ Move(b, "open", "label") \/ Move(b, "create", "label")
    /\ staging' = [NoFile EXCEPT !.status = "created"]
    /\ Keep /\ UNCHANGED <<projection, lock>>

LabelStaging(b) ==
    /\ Move(b, "label", "embed")
    /\ staging' = [staging EXCEPT !.of = {Of(b)}, !.status = "in_progress"]
    /\ Keep /\ UNCHANGED <<projection, lock>>

Pending(b) == Of(b).documents \ {v.document : v \in staging.vectors}

EmbedBatch(b, d) ==
    /\ Doing(b, "embed") /\ d \in Pending(b)
    /\ staging' = [staging EXCEPT !.vectors = @ \cup
           {[document |-> d, by |-> Of(b).endpoint]}]
    /\ UNCHANGED job
    /\ Keep /\ UNCHANGED <<projection, lock>>

Complete(b) ==
    /\ Move(b, "embed", "install")
    /\ Pending(b) = {}
    /\ staging' = [staging EXCEPT !.status = "complete"]
    /\ Keep /\ UNCHANGED <<projection, lock>>

(* The lock goes with the process that holds it.                           *)
Freed(b) == lock' = IF lock = b THEN Unset ELSE lock

Install(b) ==
    /\ Doing(b, "install")
    /\ projection' = staging /\ staging' = NoFile
    /\ Freed(b)
    /\ job' = [job EXCEPT ![b] = NoJob]
    /\ Keep

(* An epoch that has moved, a lock that is taken, an error of the          *)
(* provider, which may come at any batch, or a crash: the files stay.      *)
Stop_Discards(b) ==
    /\ ~Doing(b, "idle")
    /\ Freed(b)
    /\ job' = [job EXCEPT ![b] = NoJob]
    /\ staging' = IF lock = b THEN NoFile ELSE staging
    /\ Keep /\ UNCHANGED projection
Stop(b) ==
    /\ ~Doing(b, "idle")
    /\ Freed(b)
    /\ job' = [job EXCEPT ![b] = NoJob]
    /\ Keep /\ UNCHANGED <<staging, projection>>

-----------------------------------------------------------------------------
(* validate_projection_metadata: complete, and of the endpoint and the     *)
(* epoch that the server has                                               *)
Valid(f, of) == /\ {[s EXCEPT !.documents = {}] : s \in f.of} = of
                /\ f.status = "complete"

(* A server reads the epoch when it starts and keeps it with its endpoint: *)
(* any that were the case before.  It looks at the projection then, and    *)
(* whenever it ranks, where rank_admitted opens the file: what is renamed  *)
(* over it later is another.                                               *)
RankOpen ==
    /\ reader = NoReader
    /\ \E e \in former \cup {endpoint}, epoch \in SUBSET (live \cup gone) :
           LET of == {[endpoint |-> e, epoch |-> epoch, documents |-> {}]}
           IN /\ Valid(projection, of)
              /\ reader' = [of |-> of, file |-> projection]
    /\ UNCHANGED <<documentVars, fileVars, job>>

Ranked_ByPath == projection.vectors
Ranked == reader.file.vectors

RankRead ==
    /\ reader # NoReader
    /\ reader' = NoReader
    /\ UNCHANGED <<documentVars, fileVars, job>>

-----------------------------------------------------------------------------
Rebuild(b) ==
    \/ Begin(b) \/ CollectDocuments(b) \/ Compare(b) \/ Lock(b) \/ OpenStaging(b)
    \/ RemoveStaging(b) \/ CreateStaging(b) \/ LabelStaging(b)
    \/ \E d \in Documents : EmbedBatch(b, d)
    \/ Complete(b) \/ Install(b) \/ Stop(b)

ProjectionNext ==
    \/ \E d \in Documents : LaneChanges(d)
    \/ \E e \in Endpoints : EndpointChanges(e)
    \/ \E b \in Builders : Rebuild(b)
    \/ RankOpen \/ RankRead

ProjectionSpec == ProjectionInit /\ [][ProjectionNext]_projectionVars

-----------------------------------------------------------------------------
(* Every variable holds what the code can put there.                       *)
ProjectionTypeOK ==
    /\ live \subseteq Documents /\ gone \subseteq Documents \ live
    /\ endpoint \in Endpoints /\ former \subseteq Endpoints \ {endpoint}
    /\ staging \in Files /\ projection \in Files
    /\ lock \in Builders \cup {Unset}
    /\ job \in [Builders -> [step : {"idle", "collect", "compare", "lock"} \cup Building,
                            of : {{}} \cup {{s} : s \in Snapshots}]]
    /\ \A b \in Builders : Doing(b, "idle") <=> job[b].of = {}
    /\ reader \in [of : {{}} \cup {{s} : s \in Snapshots}, file : Files]

(* Whatever was interrupted, resumed or embedded before, the projection    *)
(* that is installed is complete for what it says it is made from: it has  *)
(* every document of its epoch, and each vector is by its endpoint.        *)
InstalledWhole ==
    projection # NoFile =>
        /\ projection.status = "complete"
        /\ \E s \in projection.of :
               /\ s.epoch \subseteq {v.document : v \in projection.vectors}
               /\ \A v \in projection.vectors : v.by = s.endpoint

(* What a builder stages is of its own snapshot, whatever it has found     *)
(* there, and nobody else is at it; the lock is never left behind by who   *)
(* has failed or died.                                                     *)
StagedAlone ==
    \A b \in Builders :
        /\ lock = b <=> job[b].step \in Building
        /\ job[b].step \in {"embed", "install"} =>
               /\ staging.of = job[b].of
               /\ {v.document : v \in staging.vectors} \subseteq Of(b).documents

(* A server ranks with whole vectors of the epoch and the endpoint that it *)
(* has started with, also when the file is replaced while it ranks.        *)
RanksOwnEpoch ==
    [][RankRead => \A s \in reader.of :
           /\ s.epoch \subseteq {v.document : v \in Ranked}
           /\ \A v \in Ranked : v.by = s.endpoint]_projectionVars

(* "Interrupted staging is retained and resumes completed batches"         *)
(* (docs/operations.md): a step that loses an embedded document is the     *)
(* install, or of a rebuild of another snapshot.  The exception is a       *)
(* rebuild interrupted between marking staging complete and the rename,    *)
(* which the next one discards.                                            *)
WorkIsKept ==
    [][\A b \in Builders : staging.vectors \ staging'.vectors # {} =>
           \/ projection' = staging
           \/ job'[b] = job[b]
           \/ staging.of # job[b].of
           \/ staging.status = "complete"]_projectionVars
=============================================================================
