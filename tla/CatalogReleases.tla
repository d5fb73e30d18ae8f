---------------------------- MODULE CatalogReleases ----------------------------
(***************************************************************************)
(* The price catalog: the releases a process keeps in its database         *)
(* (catalog_releases.py CatalogReleaseStore), how it learns of new ones    *)
(* (CatalogReleaseClient, CatalogOverlayClient) and how it swaps them into *)
(* its pricing engines (catalog_runtime.py CatalogRuntime).                *)
(*                                                                         *)
(* Four parties touch it: the thread that refreshes, the threads of the    *)
(* application that import a bundle, change the API key and close, another *)
(* process on the same database file, and the server, which may publish    *)
(* what it should not.  The store is locked for each of its operations,    *)
(* the runtime while it swaps; a refresh takes neither while it waits for  *)
(* the network, nor between its steps.                                     *)
(***************************************************************************)
EXTENDS Naturals, FiniteSets

CONSTANTS Users,         \* threads of the application
          Keys,          \* API keys
          MaxSequence,   \* bound on the sequence of a release
          MaxPublished,  \* bound on how often the server publishes
          MaxRotations,  \* bound on how often the key is changed
          MaxImports,    \* bound on the releases that come otherwise than by a refresh
          MaxFaults      \* bound on failed requests, damaged rows and expired releases

ASSUME CatalogAssumption ==
  /\ MaxSequence \in Nat \ {0}
  /\ MaxPublished \in Nat /\ MaxRotations \in Nat /\ MaxImports \in Nat /\ MaxFaults \in Nat

None == [none |-> TRUE]
Payloads == {"right", "reused"}
Releases == [sequence : 1 .. MaxSequence, content : Payloads]
-----------------------------------------------------------------------------
VARIABLES
  active, previous, \* the sequences in the slots of sdk_catalog_state, 0 when empty
  etag,             \* its manifest_etag: the release the server sent with it
  kept,             \* sdk_catalog_releases: [sequence -> content, "absent" when there is none]
  damaged,          \* the sequences that can not be read any more
  overlays,         \* sdk_catalog_overlays: whose, and for which release
  closed            \* _store_closed

store == <<active, previous, etag, kept, damaged, overlays, closed>>

VARIABLES
  snapshot, overlay,  \* what the engines use
  client, generation, \* _overlay_client (its key), _overlay_generation
  stopping, leaving   \* _stop, _close_when_stopped

runtime == <<snapshot, overlay, client, generation, stopping, leaving>>

VARIABLES
  step,     \* the next step of the refresh thread
  held,     \* what it holds: manifest, etag asked with, snapshot, key, generation, overlay
  user,     \* [Users -> the next step and what the thread holds]
  published, expired, \* the server's release, the sequences past their time
  publications, imports, catalogFaults

world == <<published, expired, publications, imports, catalogFaults>>
catalogVars == <<store, runtime, step, held, user, world>>

Loaded == [release : Releases, source : {"active", "previous"}, stale : BOOLEAN]
Overlays == [key : Keys, release : Releases]
-----------------------------------------------------------------------------
(* CatalogReleaseStore *)

Readable(slot) == slot # 0 /\ slot \notin damaged

Load(slot, source) ==
  [release |-> [sequence |-> slot, content |-> kept[slot]], source |-> source,
   stale |-> slot \in expired]

BestAvailable ==
  CASE Readable(active) -> Load(active, "active")
    [] ~Readable(active) /\ Readable(previous) -> Load(previous, "previous")
    [] OTHER -> None

\* Mutant: only the refresh compares with the active release, before it downloads.
ActivatableUnchecked(release) ==
  /\ release.sequence \notin expired \union damaged
  /\ kept[release.sequence] \in {"absent", release.content}

Activatable(release) ==
  /\ release.sequence \notin expired \union damaged
  /\ release.sequence >= active
  /\ kept[release.sequence] \in {"absent", release.content}

Activate(release, tag) ==
  /\ previous' = IF active = release.sequence THEN previous ELSE active
  /\ active' = release.sequence
  /\ kept' = [kept EXCEPT ![release.sequence] = release.content]
  /\ etag' = tag
  /\ UNCHANGED <<damaged, overlays, closed>>

MarkChecked(tag) ==
  etag' = (IF tag = None THEN etag ELSE tag)
  /\ UNCHANGED <<active, previous, kept, damaged, overlays, closed>>

CachedOverlay(key, loaded) ==
  LET own == [key |-> key, release |-> loaded.release]
  IN  IF own \in overlays THEN own ELSE None

SaveOverlay(own) ==
  /\ overlays' = overlays \union {own}
  /\ UNCHANGED <<active, previous, etag, kept, damaged, closed>>
-----------------------------------------------------------------------------
(* CatalogRuntime *)

\* A bundle is imported with the lock of the runtime held all along.
Locked == \E u \in Users : user[u].step = "swap"

\* Mutant: a change of the key does not stop an application that began before it.
SwapInAnyway(loaded, own, known) ==
  snapshot' = loaded /\ overlay' = own

SwapIn(loaded, own, known) ==
  IF known = generation
  THEN snapshot' = loaded /\ overlay' = own
  ELSE UNCHANGED <<snapshot, overlay>>

SwapOnly == UNCHANGED <<client, generation, stopping, leaving>>

NothingHeld == [manifest |-> None, asked |-> None, loaded |-> None, key |-> None,
                known |-> 0, own |-> None]
IdleUser == [step |-> "idle", key |-> None, known |-> 0, loaded |-> None, own |-> None]

CatalogInit ==
  /\ active \in {0, 1} /\ previous = 0
  /\ kept = [s \in 1 .. MaxSequence |-> IF s = active THEN "right" ELSE "absent"]
  /\ etag = None /\ damaged = {} /\ closed = FALSE
  /\ overlays \in SUBSET {[key |-> k, release |-> [sequence |-> s, content |-> "right"]] :
                          k \in Keys, s \in {active} \ {0}}
  /\ snapshot = None /\ overlay = None
  /\ client \in Keys \union {None} /\ generation = 0
  /\ stopping = FALSE /\ leaving = FALSE
  /\ step = "boot" /\ held = NothingHeld /\ user = [u \in Users |-> IdleUser]
  /\ published = [sequence |-> 1, content |-> "right"] /\ expired = {}
  /\ publications = 0 /\ imports = 0 /\ catalogFaults = 0

\* load_cached and start, before any other thread knows the runtime.
LoadCached ==
  /\ step = "boot"
  /\ snapshot' = BestAvailable
  /\ overlay' = IF BestAvailable = None THEN None ELSE CachedOverlay(client, BestAvailable)
  /\ step' = "idle"
  /\ SwapOnly /\ UNCHANGED <<store, held, user, world>>
-----------------------------------------------------------------------------
(* The refresh thread: CatalogReleaseClient.refresh *)

Fault == catalogFaults < MaxFaults /\ catalogFaults' = catalogFaults + 1
      /\ UNCHANGED <<published, expired, publications, imports>>

AskForManifest ==
  /\ step = "idle" /\ ~stopping
  /\ held' = [NothingHeld EXCEPT !.asked = etag]
  /\ step' = "asked"
  /\ UNCHANGED <<store, runtime, user, world>>

ServerAnswers ==
  /\ step = "asked"
  /\ held' = [held EXCEPT !.manifest = published]
  /\ step' = IF held.asked = published THEN "unmodified" ELSE "manifest"
  /\ UNCHANGED <<store, runtime, user, world>>

RefreshFailsAt(steps) ==
  /\ step \in steps
  /\ step' = "failed"
  /\ Fault
  /\ UNCHANGED <<store, runtime, held, user>>

RequestFails == RefreshFailsAt({"asked", "download"})

\* Not well formed, not for this SDK, or with artifacts it may not have.
RejectManifest == RefreshFailsAt({"manifest"})

\* Not the bytes the manifest announced, or not signed.
RejectArtifacts == RefreshFailsAt({"activate"})

AcceptUnmodified ==
  /\ step = "unmodified"
  /\ MarkChecked(held.asked)
  /\ step' = "checked"
  /\ UNCHANGED <<runtime, held, user, world>>

ReadUnmodified ==
  /\ step = "checked"
  /\ held' = [held EXCEPT !.loaded = BestAvailable]
  /\ step' = IF BestAvailable = None THEN "failed" ELSE "loaded"
  /\ UNCHANGED <<store, runtime, user, world>>

\* Mutant: the answer is marked as seen before the release is taken over.
ConsiderManifestEagerly ==
  LET release == held.manifest
  IN  /\ step = "manifest"
      /\ MarkChecked(release)
      /\ step' = IF release.sequence \notin expired /\ release.sequence > active
                 THEN "download" ELSE "failed"
      /\ UNCHANGED <<runtime, held, user, world>>

ConsiderManifest ==
  LET release == held.manifest
  IN  /\ step = "manifest"
      /\ \/ /\ release.sequence \notin expired
            /\ active = 0 \/ (active \notin damaged /\ release.sequence > active)
            /\ step' = "download"
            /\ UNCHANGED <<store, held>>
         \/ /\ release.sequence \notin expired
            /\ Readable(active) /\ release = Load(active, "active").release
            /\ MarkChecked(release)
            /\ held' = [held EXCEPT !.loaded = Load(active, "active")]
            /\ step' = "loaded"
         \/ /\ \/ release.sequence \in expired
               \/ active \in damaged
               \/ active # 0 /\ release.sequence <= active
                  /\ release # Load(active, "active").release
            /\ step' = "failed"
            /\ UNCHANGED <<store, held>>
      /\ UNCHANGED <<runtime, user, world>>

ArtifactsArrive ==
  /\ step = "download"
  /\ step' = "activate"
  /\ UNCHANGED <<store, runtime, held, user, world>>

ActivateManifest ==
  /\ step = "activate"
  /\ \/ Activatable(held.manifest) /\ Activate(held.manifest, held.manifest)
        /\ step' = "activated"
     \/ ~Activatable(held.manifest) /\ step' = "failed" /\ UNCHANGED store
  /\ UNCHANGED <<runtime, held, user, world>>

ReadActivated ==
  /\ step = "activated"
  /\ \/ /\ Readable(active)
        /\ held' = [held EXCEPT !.loaded = Load(active, "active")]
        /\ step' = "loaded"
     \/ ~Readable(active) /\ step' = "failed" /\ UNCHANGED held
  /\ UNCHANGED <<store, runtime, user, world>>

KeepLastKnownGood ==
  /\ step = "failed"
  /\ held' = [held EXCEPT !.loaded = BestAvailable]
  /\ step' = IF BestAvailable = None THEN "idle" ELSE "loaded"
  /\ UNCHANGED <<store, runtime, user, world>>
-----------------------------------------------------------------------------
(* The refresh thread: CatalogRuntime.refresh_once, CatalogOverlayClient.*  *)

TakeClient ==
  /\ step = "loaded" /\ ~Locked
  /\ held' = [held EXCEPT !.key = client, !.known = generation]
  /\ step' = IF client = None THEN "compare" ELSE "overlay"
  /\ UNCHANGED <<store, runtime, user, world>>

OverlayArrives ==
  /\ step = "overlay"
  /\ LET own == [key |-> held.key, release |-> held.loaded.release]
     IN  SaveOverlay(own) /\ held' = [held EXCEPT !.own = own]
  /\ step' = "compare"
  /\ UNCHANGED <<runtime, user, world>>

OverlayIsWithheld ==
  /\ step = "overlay"
  /\ held' = [held EXCEPT !.own = CachedOverlay(held.key, held.loaded)]
  /\ step' = "compare"
  /\ Fault
  /\ UNCHANGED <<store, runtime, user>>

CompareWithCurrent ==
  /\ step = "compare" /\ ~Locked
  /\ step' = IF snapshot = None THEN "apply"
             ELSE IF snapshot.release = held.loaded.release
                     /\ snapshot.stale = held.loaded.stale /\ overlay = held.own
                  THEN "idle" ELSE "apply"
  /\ UNCHANGED <<store, runtime, held, user, world>>

Apply ==
  /\ step = "apply" /\ ~Locked
  /\ SwapIn(held.loaded, held.own, held.known)
  /\ step' = IF held.known = generation THEN "idle" ELSE "retake"
  /\ SwapOnly /\ UNCHANGED <<store, held, user, world>>

RetakeClient ==
  /\ step = "retake" /\ ~Locked
  /\ held' = [held EXCEPT !.key = client, !.known = generation,
                          !.own = IF client = None THEN None
                                  ELSE CachedOverlay(client, held.loaded)]
  /\ step' = "reapply"
  /\ UNCHANGED <<store, runtime, user, world>>

Reapply ==
  /\ step = "reapply" /\ ~Locked
  /\ SwapIn(held.loaded, held.own, held.known)
  /\ step' = "idle"
  /\ SwapOnly /\ UNCHANGED <<store, held, user, world>>

ThreadLeaves ==
  /\ step = "idle" /\ stopping /\ ~Locked
  /\ step' = "gone"
  /\ closed' = (closed \/ leaving)
  /\ UNCHANGED <<active, previous, etag, kept, damaged, overlays, runtime, held, user, world>>
-----------------------------------------------------------------------------
(* The application: set_api_key, import_bundle, close *)

Started == step # "boot"

RotateKey(u) ==
  /\ Started /\ user[u] = IdleUser /\ ~Locked /\ ~stopping /\ generation < MaxRotations
  /\ \E key \in (Keys \union {None}) \ {client} :
       /\ client' = key /\ generation' = generation + 1
       /\ user' = [user EXCEPT ![u] =
            IF snapshot = None THEN IdleUser
            ELSE [IdleUser EXCEPT !.step = "cached", !.key = key, !.known = generation + 1,
                              !.loaded = snapshot]]
  /\ UNCHANGED <<store, snapshot, overlay, stopping, leaving, step, held, world>>

\* A store that was closed meanwhile makes it raise.
ReadRotated(u) ==
  /\ user[u].step = "cached"
  /\ LET mine == user[u]
         own == IF mine.key = None THEN None ELSE CachedOverlay(mine.key, mine.loaded)
     IN  user' = [user EXCEPT ![u] = IF closed /\ mine.key # None THEN IdleUser
                                     ELSE [mine EXCEPT !.step = "rotated", !.own = own]]
  /\ UNCHANGED <<store, runtime, step, held, world>>

ApplyRotated(u) ==
  /\ user[u].step = "rotated" /\ ~Locked
  /\ SwapIn(user[u].loaded, user[u].own, user[u].known)
  /\ user' = [user EXCEPT ![u] = IdleUser]
  /\ SwapOnly /\ UNCHANGED <<store, step, held, world>>

ImportBundle(u) ==
  /\ Started /\ user[u] = IdleUser /\ ~Locked /\ ~closed /\ imports < MaxImports
  /\ \E release \in Releases :
       Activatable(release) /\ Activate(release, None)
  /\ user' = [user EXCEPT ![u] = [IdleUser EXCEPT !.step = "swap"]]
  /\ imports' = imports + 1
  /\ UNCHANGED <<runtime, step, held, published, expired, publications, catalogFaults>>

SwapImported(u) ==
  /\ user[u].step = "swap"
  /\ \/ /\ Readable(active) /\ ~closed
        /\ snapshot' = Load(active, "active")
        /\ overlay' = IF client = None THEN None
                      ELSE CachedOverlay(client, Load(active, "active"))
     \/ /\ closed \/ ~Readable(active)
        /\ UNCHANGED <<snapshot, overlay>>
  /\ user' = [user EXCEPT ![u] = IdleUser]
  /\ SwapOnly /\ UNCHANGED <<store, step, held, world>>

CloseStops(u) ==
  /\ Started /\ ~stopping /\ user[u] = IdleUser
  /\ stopping' = TRUE
  /\ user' = [user EXCEPT ![u] = [IdleUser EXCEPT !.step = "leave"]]
  /\ UNCHANGED <<store, snapshot, overlay, client, generation, leaving, step, held, world>>

CloseAsksTheThread(u) ==
  /\ user[u].step = "leave" /\ ~Locked
  /\ leaving' = TRUE
  /\ user' = [user EXCEPT ![u] = [IdleUser EXCEPT !.step = "join"]]
  /\ UNCHANGED <<store, snapshot, overlay, client, generation, stopping, step, held, world>>

\* The thread is joined for two seconds, which only a request can outlast.
CloseTheStore(u) ==
  /\ user[u].step = "join"
  /\ \/ step = "gone" /\ ~Locked /\ closed' = TRUE
     \/ step \in {"asked", "download", "overlay"} /\ UNCHANGED closed
  /\ user' = [user EXCEPT ![u] = IdleUser]
  /\ UNCHANGED <<active, previous, etag, kept, damaged, overlays, runtime, step, held, world>>
-----------------------------------------------------------------------------
(* The server, the other process, time and the disk *)

Publish ==
  /\ publications < MaxPublished
  /\ published' \in Releases \ {published}
  /\ publications' = publications + 1
  /\ UNCHANGED <<store, runtime, step, held, user, expired, imports, catalogFaults>>

OtherProcessActivates ==
  /\ imports < MaxImports /\ imports' = imports + 1
  /\ \E release \in Releases, mine \in BOOLEAN :
       /\ Activatable(release)
       /\ mine => release = published
       /\ Activate(release, IF mine THEN release ELSE None)
  /\ UNCHANGED <<runtime, step, held, user, published, expired, publications, catalogFaults>>

Expire ==
  /\ \E s \in 1 .. MaxSequence : s \notin expired /\ expired' = expired \union {s}
  /\ catalogFaults < MaxFaults /\ catalogFaults' = catalogFaults + 1
  /\ UNCHANGED <<store, runtime, step, held, user, published, publications, imports>>

Damage ==
  /\ \E s \in {active, previous} \ ({0} \union damaged) : damaged' = damaged \union {s}
  /\ Fault
  /\ UNCHANGED <<active, previous, etag, kept, overlays, closed, runtime, step, held, user>>

RefreshNext ==
  \/ AskForManifest \/ ServerAnswers
  \/ RequestFails \/ RejectManifest \/ RejectArtifacts
  \/ AcceptUnmodified \/ ReadUnmodified
  \/ ConsiderManifest \/ ArtifactsArrive \/ ActivateManifest \/ ReadActivated
  \/ KeepLastKnownGood \/ TakeClient \/ OverlayArrives \/ OverlayIsWithheld
  \/ CompareWithCurrent \/ Apply \/ RetakeClient \/ Reapply \/ ThreadLeaves

UserNext(u) ==
  \/ RotateKey(u) \/ ReadRotated(u) \/ ApplyRotated(u)
  \/ ImportBundle(u) \/ SwapImported(u)
  \/ CloseStops(u) \/ CloseAsksTheThread(u) \/ CloseTheStore(u)

CatalogNext ==
  \/ LoadCached \/ RefreshNext \/ \E u \in Users : UserNext(u)
  \/ Publish \/ OtherProcessActivates \/ Expire \/ Damage

CatalogSpec == CatalogInit /\ [][CatalogNext]_catalogVars
-----------------------------------------------------------------------------
\* Every variable holds a value of its kind.
CatalogTypeOK ==
  /\ active \in 0 .. MaxSequence /\ previous \in 0 .. MaxSequence
  /\ etag \in Releases \union {None}
  /\ kept \in [1 .. MaxSequence -> Payloads \union {"absent"}]
  /\ damaged \subseteq 1 .. MaxSequence /\ expired \subseteq 1 .. MaxSequence
  /\ overlays \subseteq Overlays
  /\ snapshot \in Loaded \union {None} /\ overlay \in Overlays \union {None}
  /\ client \in Keys \union {None} /\ generation \in 0 .. MaxRotations
  /\ published \in Releases

\* Whoever activates, on whatever it knew, the active release of the database never
\* becomes an older one, and a sequence never changes its content
\* (CatalogReleaseStore.activate).
ReleasesOnlyAdvance ==
  [][ /\ active' >= active
      /\ \A s \in 1 .. MaxSequence : kept[s] # "absent" => kept'[s] = kept[s] ]_catalogVars

\* The release to fall back on is another, older one, and it is there
\* (CatalogReleaseStore.activate, best_available).
FallbackIsAnother ==
  previous # 0 => previous < active /\ kept[previous] # "absent"

\* The server is not asked for news with the mark of a release that the database does
\* not have: "not modified" would hide that release for ever
\* (mark_checked, activate, refresh).
NotModifiedHidesNothing ==
  etag # None => etag.sequence <= active /\ kept[etag.sequence] = etag.content

\* The rates of a workspace go with the release they were made for, whichever of a
\* refresh, a change of the key and an import came last (_apply, load_overlay).
OverlayFitsItsRelease ==
  overlay # None => snapshot # None /\ overlay.release = snapshot.release

\* The rates in use are those of the current key, unless the thread that changed it
\* is still about to put them away (set_api_key, refresh_once).
OverlayOfTheCurrentKey ==
  overlay # None /\ overlay.key # client /\ ~closed =>
    \E u \in Users : user[u].step \in {"cached", "rotated"} /\ user[u].known = generation

\* The rates in use fit both the release and the key.
OverlayIsCurrent == OverlayFitsItsRelease /\ OverlayOfTheCurrentKey

\* The database is closed once its thread is gone, and not under it
\* (close, _close_store).
StoreOutlivesItsThread == closed => step = "gone"

\* The store can be relied on: for a release to fall back on, for what to ask the server,
\* and for being open as long as it is used.
StoreIsSound == FallbackIsAnother /\ NotModifiedHidesNothing /\ StoreOutlivesItsThread
=============================================================================
