----------------------------- MODULE StoreProofs -----------------------------
(***************************************************************************)
(* Theorems about what the SDK keeps in its database file.                 *)
(* CatalogReleases, for any sets of threads and keys and any bounds.       *)
(* SchemaMigrations, for any number of processes, versions, deaths and     *)
(* locks that are not had: a version row never says more than the file     *)
(* has, and whoever has opened the file finds all of it.                   *)
(***************************************************************************)
EXTENDS CatalogReleases, SchemaMigrations, TLAPS

(***************************************************************************)
(* The inductive invariant.  The store, the engines and each thread hold   *)
(* releases that are whole, and what a thread holds stays true although    *)
(* the store, the key and the server move on under it.                     *)
(***************************************************************************)
Optional(S) == S \union {None}

CatalogSteps == {"boot", "idle", "asked", "unmodified", "checked", "manifest", "download",
          "activate", "activated", "failed", "loaded", "overlay", "compare", "apply",
          "retake", "reapply", "gone"}

UserSteps == {"idle", "cached", "rotated", "swap", "leave", "join"}

Held == [manifest : Optional(Releases), asked : Optional(Releases),
         loaded : Optional(Loaded), key : Optional(Keys), known : Nat,
         own : Optional(Overlays)]

UserState == [step : UserSteps, key : Optional(Keys), known : Nat,
              loaded : Optional(Loaded), own : Optional(Overlays)]

(* The database. *)
StoreTypeOK ==
  /\ active \in 0 .. MaxSequence /\ previous \in 0 .. MaxSequence
  /\ etag \in Optional(Releases)
  /\ kept \in [1 .. MaxSequence -> Payloads \union {"absent"}]
  /\ damaged \subseteq 1 .. MaxSequence /\ expired \subseteq 1 .. MaxSequence
  /\ overlays \subseteq Overlays
  /\ published \in Releases

\* A release is in the database, and not ahead of the one in use.
IsKept(release) ==
  release # None => release.sequence <= active /\ kept[release.sequence] = release.content

StoreInv ==
  /\ StoreTypeOK
  /\ active # 0 => kept[active] # "absent"
  /\ FallbackIsAnother
  /\ IsKept(etag)

\* What no operation on the database undoes.
StoreAdvances ==
  /\ active' >= active
  /\ \A s \in 1 .. MaxSequence : kept[s] # "absent" => kept'[s] = kept[s]

(* The engines. *)
RuntimeTypeOK ==
  /\ snapshot \in Optional(Loaded) /\ overlay \in Optional(Overlays)
  /\ client \in Optional(Keys) /\ generation \in 0 .. MaxRotations

\* An overlay goes with the release and the key beside it, and who knows the present
\* generation has the present key.
Consistent(key, known, loaded, own) ==
  /\ own # None => own.release = loaded.release /\ own.key = key
  /\ known = generation => key = client

(* The refresh thread. *)
HeldForItsStep ==
  /\ step \in {"unmodified", "manifest", "download", "activate"} =>
       held.manifest \in Releases
  /\ step \in {"loaded", "overlay", "compare", "apply", "retake", "reapply"} =>
       held.loaded \in Loaded
  /\ step = "overlay" => held.key \in Keys
  /\ step \in {"loaded", "overlay"} => held.own = None
  /\ step \in {"unmodified", "checked", "manifest", "download", "activate", "activated",
               "asked", "failed"} => held.own = None
  /\ step \in {"overlay", "compare", "apply", "retake", "reapply"} =>
       Consistent(held.key, held.known, held.loaded, held.own)

HeldInv ==
  /\ step \in CatalogSteps /\ held \in Held
  /\ IsKept(held.asked)
  /\ held.known <= generation
  /\ HeldForItsStep

(* The threads of the application. *)
Rotating(u) == user[u].step \in {"cached", "rotated"}

UsersInv ==
  /\ user \in [Users -> UserState]
  /\ \A u \in Users :
       /\ user[u].known <= generation
       /\ Rotating(u) =>
            /\ user[u].loaded \in Loaded
            /\ Consistent(user[u].key, user[u].known, user[u].loaded, user[u].own)

CatalogInv ==
  /\ StoreInv /\ RuntimeTypeOK /\ HeldInv /\ UsersInv
  /\ OverlayIsCurrent /\ StoreOutlivesItsThread
-----------------------------------------------------------------------------
(* What the operators return. *)

LEMMA NoneIsApart == None \notin Releases /\ None \notin Loaded /\ None \notin Overlays
BY DEF None, Releases, Loaded, Overlays

LEMMA LoadType ==
  ASSUME StoreInv, NEW slot \in {active, previous}, slot # 0,
         NEW source \in {"active", "previous"}
  PROVE  Load(slot, source) \in Loaded
<1>1. slot \in 1 .. MaxSequence
  BY CatalogAssumption DEF StoreInv, StoreTypeOK
<1>2. kept[slot] # "absent"
  BY DEF StoreInv, FallbackIsAnother
<1>3. kept[slot] \in Payloads
  BY <1>1, <1>2 DEF StoreInv, StoreTypeOK
<1> QED BY <1>1, <1>3 DEF Load, Loaded, Releases

LEMMA BestAvailableType ==
  ASSUME StoreInv PROVE BestAvailable \in Optional(Loaded)
<1>1. Readable(active) => Load(active, "active") \in Loaded
  BY LoadType DEF Readable
<1>2. Readable(previous) => Load(previous, "previous") \in Loaded
  BY LoadType DEF Readable
<1> QED BY <1>1, <1>2 DEF BestAvailable, Optional

LEMMA CachedOverlayType ==
  ASSUME StoreInv, NEW key, NEW loaded, NEW own, own = CachedOverlay(key, loaded)
  PROVE  /\ own \in Optional(Overlays)
         /\ own # None => own.release = loaded.release /\ own.key = key
BY DEF CachedOverlay, StoreInv, StoreTypeOK, Optional

\* Reading the database for what fits a key, or for nothing without one.
LEMMA OwnOverlayType ==
  ASSUME StoreInv, NEW key, NEW loaded, NEW own,
         own = IF key = None THEN None ELSE CachedOverlay(key, loaded)
  PROVE  /\ own \in Optional(Overlays)
         /\ own # None => own.release = loaded.release /\ own.key = key
<1>1. CASE key = None
  BY <1>1 DEF Optional
<1>2. CASE key # None
  BY <1>2, CachedOverlayType
<1> QED BY <1>1, <1>2

LEMMA ActivateAdvances ==
  ASSUME StoreInv, NEW release \in Releases, NEW tag \in {release, None},
         Activatable(release), Activate(release, tag),
         UNCHANGED <<expired, published>>
  PROVE  StoreInv' /\ StoreAdvances
<1> DEFINE s == release.sequence
<1>1. s \in 1 .. MaxSequence /\ release.content \in Payloads
  BY DEF Releases
<1>2. /\ active \in 0 .. MaxSequence /\ previous \in 0 .. MaxSequence
      /\ s >= active /\ kept[s] \in {"absent", release.content}
      /\ kept \in [1 .. MaxSequence -> Payloads \union {"absent"}]
  BY DEF StoreInv, StoreTypeOK, Activatable
<1>3. /\ active' = s /\ kept' = [kept EXCEPT ![s] = release.content] /\ etag' = tag
      /\ previous' = IF active = s THEN previous ELSE active
      /\ UNCHANGED <<damaged, overlays, closed>>
  BY DEF Activate
<1>4. kept' \in [1 .. MaxSequence -> Payloads \union {"absent"}] /\ kept'[s] = release.content
  BY <1>1, <1>2, <1>3
<1>5. \A t \in 1 .. MaxSequence : kept[t] # "absent" => kept'[t] = kept[t]
  BY <1>1, <1>2, <1>3
<1>6. release.content # "absent"
  BY <1>1 DEF Payloads
<1>7. StoreTypeOK'
  BY <1>1, <1>2, <1>3, <1>4 DEF StoreInv, StoreTypeOK, Optional
<1>8. FallbackIsAnother'
  <2>1. CASE active = s
    BY <2>1, <1>1, <1>2, <1>3, <1>5 DEF StoreInv, FallbackIsAnother
  <2>2. CASE active # s
    BY <2>2, <1>1, <1>2, <1>3, <1>5, CatalogAssumption DEF StoreInv, FallbackIsAnother
  <2> QED BY <2>1, <2>2
<1>9. IsKept(etag)'
  BY <1>1, <1>3, <1>4 DEF IsKept
<1> HIDE DEF s
<1> QED BY <1>1, <1>2, <1>3, <1>4, <1>5, <1>6, <1>7, <1>8, <1>9 DEF StoreInv, StoreAdvances

LEMMA MarkCheckedAdvances ==
  ASSUME StoreInv, NEW tag \in Optional(Releases), IsKept(tag), MarkChecked(tag),
         UNCHANGED <<expired, published>>
  PROVE  StoreInv' /\ StoreAdvances
BY CatalogAssumption
   DEF MarkChecked, StoreInv, StoreTypeOK, FallbackIsAnother, IsKept, StoreAdvances

LEMMA KeptStaysKept ==
  ASSUME StoreInv, StoreInv', StoreAdvances, NEW release \in Optional(Releases),
         IsKept(release)
  PROVE  IsKept(release)'
<1> SUFFICES ASSUME release # None
             PROVE  release.sequence <= active' /\ kept'[release.sequence] = release.content
  BY DEF IsKept
<1>1. release.sequence \in 1 .. MaxSequence /\ release.content # "absent"
  BY DEF Optional, Releases, Payloads
<1> QED BY <1>1, CatalogAssumption DEF IsKept, StoreAdvances, StoreInv, StoreTypeOK
-----------------------------------------------------------------------------
(* The database, under every step. *)

LEMMA SameReleases ==
  ASSUME StoreInv, UNCHANGED <<active, previous, etag, kept>>,
         damaged' \subseteq 1 .. MaxSequence, expired' \subseteq 1 .. MaxSequence,
         overlays' \subseteq Overlays, published' \in Releases
  PROVE  StoreInv' /\ StoreAdvances
BY CatalogAssumption DEF StoreInv, StoreTypeOK, FallbackIsAnother, IsKept, StoreAdvances

LEMMA SameStore ==
  ASSUME StoreInv, UNCHANGED <<store, expired, published>>
  PROVE  StoreInv' /\ StoreAdvances
BY SameReleases DEF store, StoreInv, StoreTypeOK

LEMMA RefreshStore ==
  ASSUME CatalogInv, RefreshNext PROVE StoreInv' /\ StoreAdvances
<1> USE DEF CatalogInv
<1>1. CASE AcceptUnmodified
  <2>1. held.asked \in Optional(Releases) /\ IsKept(held.asked)
    BY DEF HeldInv, Held
  <2> QED BY <1>1, <2>1, MarkCheckedAdvances DEF AcceptUnmodified, world
<1>2. CASE ConsiderManifest
  <2>1. CASE UNCHANGED store
    BY <1>2, <2>1, SameStore DEF ConsiderManifest, world
  <2>2. CASE Readable(active) /\ held.manifest = Load(active, "active").release
               /\ MarkChecked(held.manifest)
    <3>1. held.manifest \in Releases
      BY <1>2, <2>2, LoadType DEF Readable, Loaded
    <3>2. IsKept(held.manifest)
      BY <2>2, CatalogAssumption DEF IsKept, Load, StoreInv, StoreTypeOK
    <3> QED BY <1>2, <2>2, <3>1, <3>2, MarkCheckedAdvances DEF ConsiderManifest, Optional, world
  <2> QED BY <1>2, <2>1, <2>2 DEF ConsiderManifest
<1>3. CASE ActivateManifest
  <2>1. held.manifest \in Releases
    BY <1>3 DEF ActivateManifest, HeldInv, HeldForItsStep
  <2>2. CASE UNCHANGED store
    BY <1>3, <2>2, SameStore DEF ActivateManifest, world
  <2>3. CASE Activatable(held.manifest) /\ Activate(held.manifest, held.manifest)
    BY <1>3, <2>1, <2>3, ActivateAdvances DEF ActivateManifest, world
  <2> QED BY <1>3, <2>2, <2>3 DEF ActivateManifest
<1>4. CASE OverlayArrives
  <2>1. [key |-> held.key, release |-> held.loaded.release] \in Overlays
    BY <1>4 DEF OverlayArrives, HeldInv, HeldForItsStep, Loaded, Overlays
  <2> QED BY <1>4, <2>1, SameReleases
          DEF OverlayArrives, SaveOverlay, StoreInv, StoreTypeOK, world
<1>5. CASE ThreadLeaves
  BY <1>5, SameReleases DEF ThreadLeaves, StoreInv, StoreTypeOK, world
<1>6. CASE AskForManifest \/ ServerAnswers \/ ReadUnmodified \/ ArtifactsArrive
           \/ ReadActivated \/ KeepLastKnownGood \/ TakeClient \/ CompareWithCurrent
           \/ Apply \/ RetakeClient \/ Reapply
  BY <1>6, SameStore
     DEF AskForManifest, ServerAnswers, ReadUnmodified, ArtifactsArrive, ReadActivated,
         KeepLastKnownGood, TakeClient, CompareWithCurrent, Apply, RetakeClient, Reapply, world
<1>7. CASE RequestFails \/ RejectManifest \/ RejectArtifacts \/ OverlayIsWithheld
  BY <1>7, SameStore
     DEF RequestFails, RejectManifest, RejectArtifacts, RefreshFailsAt, OverlayIsWithheld, Fault
<1> QED BY <1>1, <1>2, <1>3, <1>4, <1>5, <1>6, <1>7 DEF RefreshNext

LEMMA UserStore ==
  ASSUME CatalogInv, NEW u \in Users, UserNext(u) PROVE StoreInv' /\ StoreAdvances
<1> USE DEF CatalogInv
<1>1. CASE ImportBundle(u)
  BY <1>1, ActivateAdvances DEF ImportBundle
<1>2. CASE CloseTheStore(u)
  BY <1>2, SameReleases DEF CloseTheStore, StoreInv, StoreTypeOK, world
<1>3. CASE RotateKey(u) \/ ReadRotated(u) \/ ApplyRotated(u) \/ SwapImported(u)
           \/ CloseStops(u) \/ CloseAsksTheThread(u)
  BY <1>3, SameStore
     DEF RotateKey, ReadRotated, ApplyRotated, SwapImported, CloseStops, CloseAsksTheThread,
         world
<1> QED BY <1>1, <1>2, <1>3 DEF UserNext

LEMMA StoreStep ==
  ASSUME CatalogInv, [CatalogNext]_catalogVars PROVE StoreInv' /\ StoreAdvances
<1> USE DEF CatalogInv
<1>1. CASE LoadCached
  BY <1>1, SameStore DEF LoadCached, world
<1>2. CASE Publish
  BY <1>2, SameReleases DEF Publish, store, StoreInv, StoreTypeOK
<1>3. CASE OtherProcessActivates
  BY <1>3, ActivateAdvances DEF OtherProcessActivates
<1>4. CASE Expire
  BY <1>4, SameReleases DEF Expire, store, StoreInv, StoreTypeOK
<1>5. CASE Damage
  <2>1. damaged' \subseteq 1 .. MaxSequence
    BY <1>5, CatalogAssumption DEF Damage, StoreInv, StoreTypeOK
  <2> QED BY <1>5, <2>1, SameReleases DEF Damage, Fault, StoreInv, StoreTypeOK
<1>6. CASE UNCHANGED catalogVars
  BY <1>6, SameStore DEF catalogVars, world
<1> QED BY <1>1, <1>2, <1>3, <1>4, <1>5, <1>6, RefreshStore, UserStore DEF CatalogNext
-----------------------------------------------------------------------------
(* The refresh thread: what it holds fits the step it is at. *)

LEMMA HeldStays ==
  ASSUME CatalogInv, StoreInv', StoreAdvances, UNCHANGED <<step, held>>,
         UNCHANGED <<client, generation>> \/ generation' = generation + 1
  PROVE  HeldInv'
<1> USE DEF CatalogInv, RuntimeTypeOK
<1>1. held \in Held /\ IsKept(held.asked) /\ held.known <= generation /\ HeldForItsStep
  BY DEF HeldInv
<1>2. held.asked \in Optional(Releases) /\ held.known \in Nat
  BY <1>1 DEF Held
<1>3. IsKept(held.asked)'
  BY <1>1, <1>2, KeptStaysKept
<1>4. held.known <= generation'
  BY <1>1, <1>2, CatalogAssumption
<1>5. ASSUME Consistent(held.key, held.known, held.loaded, held.own)
      PROVE  Consistent(held.key, held.known, held.loaded, held.own)'
  BY <1>1, <1>2, <1>5, CatalogAssumption DEF Consistent
<1>6. HeldForItsStep'
  BY <1>1, <1>5 DEF HeldForItsStep
<1> QED BY <1>1, <1>3, <1>4, <1>6 DEF HeldInv

\* A step of the thread that changes neither the key nor what was asked with.
LEMMA HeldMoves ==
  ASSUME CatalogInv, StoreInv', StoreAdvances, UNCHANGED <<client, generation>>,
         step' \in CatalogSteps, held' \in Held, held'.asked = held.asked,
         held'.known <= generation, HeldForItsStep'
  PROVE  HeldInv'
<1>1. held.asked \in Optional(Releases) /\ IsKept(held.asked)
  BY DEF CatalogInv, HeldInv, Held
<1>2. IsKept(held.asked)'
  BY <1>1, KeptStaysKept DEF CatalogInv
<1> QED BY <1>2 DEF HeldInv, IsKept

LEMMA RefreshHeld ==
  ASSUME CatalogInv, StoreInv', StoreAdvances, RefreshNext PROVE HeldInv'
<1> USE DEF CatalogInv
<1>0. /\ step \in CatalogSteps /\ held \in Held /\ IsKept(held.asked)
      /\ held.known \in Nat /\ generation \in Nat /\ held.known <= generation
      /\ HeldForItsStep
      /\ client \in Optional(Keys)
  BY CatalogAssumption DEF HeldInv, Held, RuntimeTypeOK
<1>1. CASE AskForManifest
  <2>1. etag \in Optional(Releases) /\ UNCHANGED <<store, client, generation>>
    BY <1>1 DEF AskForManifest, StoreInv, StoreTypeOK, runtime
  <2>2. held' = [NothingHeld EXCEPT !.asked = etag] /\ step' = "asked"
    BY <1>1 DEF AskForManifest
  <2>3. held' \in Held /\ held'.asked = etag /\ held'.known = 0 /\ held'.own = None
    BY <2>1, <2>2 DEF NothingHeld, Held, Optional
  <2>4. HeldForItsStep'
    BY <2>2, <2>3 DEF HeldForItsStep
  <2>5. IsKept(held.asked)'
    BY <2>1, <2>3 DEF IsKept, StoreInv, store
  <2> QED BY <1>0, <2>1, <2>2, <2>3, <2>4, <2>5 DEF HeldInv, CatalogSteps
<1>2. CASE ServerAnswers
  <2>1. /\ held' = [held EXCEPT !.manifest = published]
        /\ step' \in {"unmodified", "manifest"} /\ step = "asked"
        /\ UNCHANGED <<client, generation>> /\ published \in Releases
    BY <1>2 DEF ServerAnswers, runtime, StoreInv, StoreTypeOK
  <2>2. /\ held' \in Held /\ held'.asked = held.asked /\ held'.known = held.known
        /\ held'.own = held.own /\ held'.manifest \in Releases
    BY <1>0, <2>1 DEF Held, Optional
  <2>3. HeldForItsStep'
    BY <1>0, <2>1, <2>2 DEF HeldForItsStep
  <2> QED BY <1>0, <2>1, <2>2, <2>3, HeldMoves DEF CatalogSteps
<1>3. CASE RequestFails \/ RejectManifest \/ RejectArtifacts
  <2>1. /\ step' = "failed" /\ held' = held /\ UNCHANGED <<client, generation>>
        /\ step \in {"asked", "download", "manifest", "activate"}
    BY <1>3 DEF RequestFails, RejectManifest, RejectArtifacts, RefreshFailsAt, runtime
  <2>2. HeldForItsStep'
    BY <1>0, <2>1 DEF HeldForItsStep
  <2> QED BY <1>0, <2>1, <2>2, HeldMoves DEF CatalogSteps
<1>4. CASE AcceptUnmodified
  <2>1. /\ step = "unmodified" /\ step' = "checked" /\ held' = held
        /\ UNCHANGED <<client, generation>>
    BY <1>4 DEF AcceptUnmodified, runtime
  <2>2. HeldForItsStep'
    BY <1>0, <2>1 DEF HeldForItsStep
  <2> QED BY <1>0, <2>1, <2>2, HeldMoves DEF CatalogSteps
<1>5. CASE ReadUnmodified \/ KeepLastKnownGood
  <2>1. /\ held' = [held EXCEPT !.loaded = BestAvailable]
        /\ step \in {"checked", "failed"}
        /\ \/ BestAvailable = None /\ step' \in {"failed", "idle"}
           \/ BestAvailable # None /\ step' = "loaded"
        /\ UNCHANGED <<client, generation>>
    BY <1>5 DEF ReadUnmodified, KeepLastKnownGood, runtime
  <2>2. BestAvailable \in Optional(Loaded)
    BY BestAvailableType
  <2>3. /\ held' \in Held /\ held'.asked = held.asked /\ held'.known = held.known
        /\ held'.own = held.own /\ held'.loaded = BestAvailable
    BY <1>0, <2>1, <2>2 DEF Held
  <2>4. HeldForItsStep'
    BY <1>0, <2>1, <2>2, <2>3 DEF HeldForItsStep, Optional
  <2> QED BY <1>0, <2>1, <2>3, <2>4, HeldMoves DEF CatalogSteps
<1>6. CASE ConsiderManifest
  <2>1. step = "manifest" /\ UNCHANGED <<client, generation>>
    BY <1>6 DEF ConsiderManifest, runtime
  <2>2. CASE step' \in {"download", "failed"} /\ held' = held
    <3>1. HeldForItsStep'
      BY <1>0, <2>1, <2>2 DEF HeldForItsStep
    <3> QED BY <1>0, <2>1, <2>2, <3>1, HeldMoves DEF CatalogSteps
  <2>3. CASE Readable(active) /\ step' = "loaded"
               /\ held' = [held EXCEPT !.loaded = Load(active, "active")]
    <3>1. Load(active, "active") \in Loaded
      BY <2>3, LoadType DEF Readable
    <3>2. /\ held' \in Held /\ held'.asked = held.asked /\ held'.known = held.known
          /\ held'.own = held.own /\ held'.loaded \in Loaded
      BY <1>0, <2>3, <3>1 DEF Held, Optional
    <3>3. HeldForItsStep'
      BY <1>0, <2>1, <2>3, <3>2 DEF HeldForItsStep
    <3> QED BY <1>0, <2>1, <2>3, <3>2, <3>3, HeldMoves DEF CatalogSteps
  <2> QED BY <1>6, <2>2, <2>3 DEF ConsiderManifest
<1>7. CASE ArtifactsArrive \/ ActivateManifest
  <2>1. /\ step \in {"download", "activate"} /\ held' = held
        /\ \/ step' = "activate"
           \/ step' \in {"activated", "failed"}
        /\ UNCHANGED <<client, generation>>
    BY <1>7 DEF ArtifactsArrive, ActivateManifest, runtime
  <2>2. HeldForItsStep'
    BY <1>0, <2>1 DEF HeldForItsStep
  <2> QED BY <1>0, <2>1, <2>2, HeldMoves DEF CatalogSteps
<1>8. CASE ReadActivated
  <2>1. step = "activated" /\ UNCHANGED <<client, generation>>
    BY <1>8 DEF ReadActivated, runtime
  <2>2. CASE step' = "failed" /\ held' = held
    <3>1. HeldForItsStep'
      BY <1>0, <2>1, <2>2 DEF HeldForItsStep
    <3> QED BY <1>0, <2>1, <2>2, <3>1, HeldMoves DEF CatalogSteps
  <2>3. CASE Readable(active) /\ step' = "loaded"
               /\ held' = [held EXCEPT !.loaded = Load(active, "active")]
    <3>1. Load(active, "active") \in Loaded
      BY <2>3, LoadType DEF Readable
    <3>2. /\ held' \in Held /\ held'.asked = held.asked /\ held'.known = held.known
          /\ held'.own = held.own /\ held'.loaded \in Loaded
      BY <1>0, <2>3, <3>1 DEF Held, Optional
    <3>3. HeldForItsStep'
      BY <1>0, <2>1, <2>3, <3>2 DEF HeldForItsStep
    <3> QED BY <1>0, <2>1, <2>3, <3>2, <3>3, HeldMoves DEF CatalogSteps
  <2> QED BY <1>8, <2>2, <2>3 DEF ReadActivated
<1>9. CASE TakeClient
  <2>1. /\ step = "loaded" /\ UNCHANGED <<client, generation>>
        /\ held' = [held EXCEPT !.key = client, !.known = generation]
        /\ step' = IF client = None THEN "compare" ELSE "overlay"
    BY <1>9 DEF TakeClient, runtime
  <2>2. /\ held' \in Held /\ held'.asked = held.asked /\ held'.known = generation
        /\ held'.own = held.own /\ held'.loaded = held.loaded /\ held'.key = client
    BY <1>0, <2>1 DEF Held
  <2>3. HeldForItsStep'
    BY <1>0, <2>1, <2>2 DEF HeldForItsStep, Consistent, Optional
  <2> QED BY <1>0, <2>1, <2>2, <2>3, HeldMoves DEF CatalogSteps
<1>10. CASE OverlayArrives \/ OverlayIsWithheld
  <2> DEFINE own == held'.own
  <2>1. /\ step = "overlay" /\ step' = "compare" /\ UNCHANGED <<client, generation>>
        /\ held' = [held EXCEPT !.own = own]
        /\ \/ own = [key |-> held.key, release |-> held.loaded.release]
           \/ own = CachedOverlay(held.key, held.loaded)
    BY <1>0, <1>10 DEF OverlayArrives, OverlayIsWithheld, runtime, Held
  <2>2. /\ own \in Optional(Overlays)
        /\ own # None => own.release = held.loaded.release /\ own.key = held.key
    <3>1. held.key \in Keys /\ held.loaded \in Loaded
      BY <1>0, <2>1 DEF HeldForItsStep
    <3> QED BY <2>1, <3>1, CachedOverlayType DEF Overlays, Loaded, Optional
  <2>3. /\ held' \in Held /\ held'.asked = held.asked /\ held'.known = held.known
        /\ held'.loaded = held.loaded /\ held'.key = held.key
    BY <1>0, <2>1, <2>2 DEF Held
  <2>4. HeldForItsStep'
    BY <1>0, <2>1, <2>2, <2>3 DEF HeldForItsStep, Consistent
  <2> QED BY <1>0, <2>1, <2>3, <2>4, HeldMoves DEF CatalogSteps
<1>11. CASE CompareWithCurrent \/ Apply \/ Reapply \/ ThreadLeaves
  <2>1. /\ held' = held /\ UNCHANGED <<client, generation>>
        /\ \/ step' \in {"idle", "gone"}
           \/ step \in {"compare", "apply"} /\ step' \in {"apply", "retake"}
    BY <1>11 DEF CompareWithCurrent, Apply, Reapply, ThreadLeaves, runtime, SwapOnly
  <2>2. HeldForItsStep'
    BY <1>0, <2>1 DEF HeldForItsStep, Consistent
  <2> QED BY <1>0, <2>1, <2>2, HeldMoves DEF CatalogSteps
<1>12. CASE RetakeClient
  <2> DEFINE own == IF client = None THEN None ELSE CachedOverlay(client, held.loaded)
  <2>1. /\ step = "retake" /\ step' = "reapply" /\ UNCHANGED <<client, generation>>
        /\ held' = [held EXCEPT !.key = client, !.known = generation, !.own = own]
    BY <1>12 DEF RetakeClient, runtime
  <2>2. /\ own \in Optional(Overlays)
        /\ own # None => own.release = held.loaded.release /\ own.key = client
    BY OwnOverlayType
  <2> HIDE DEF own
  <2>3. /\ held' \in Held /\ held'.asked = held.asked /\ held'.known = generation
        /\ held'.loaded = held.loaded /\ held'.key = client /\ held'.own = own
    BY <1>0, <2>1, <2>2 DEF Held
  <2>4. HeldForItsStep'
    BY <1>0, <2>1, <2>2, <2>3 DEF HeldForItsStep, Consistent
  <2> QED BY <1>0, <2>1, <2>3, <2>4, HeldMoves DEF CatalogSteps
<1> QED
  BY <1>1, <1>2, <1>3, <1>4, <1>5, <1>6, <1>7, <1>8, <1>9, <1>10, <1>11, <1>12
     DEF RefreshNext

LEMMA HeldStep ==
  ASSUME CatalogInv, [CatalogNext]_catalogVars, StoreInv', StoreAdvances PROVE HeldInv'
<1>1. CASE LoadCached
  <2>1. /\ step' = "idle" /\ held' = held /\ UNCHANGED <<client, generation>>
        /\ HeldForItsStep' /\ held.known <= generation /\ held \in Held
    BY <1>1 DEF LoadCached, SwapOnly, HeldForItsStep, CatalogInv, HeldInv
  <2> QED BY <2>1, HeldMoves DEF CatalogSteps
<1>2. CASE \E u \in Users : UserNext(u)
  BY <1>2, HeldStays
     DEF UserNext, RotateKey, ReadRotated, ApplyRotated, ImportBundle, SwapImported,
         CloseStops, CloseAsksTheThread, CloseTheStore, runtime, SwapOnly
<1>3. CASE Publish \/ OtherProcessActivates \/ Expire \/ Damage \/ UNCHANGED catalogVars
  BY <1>3, HeldStays
     DEF Publish, OtherProcessActivates, Expire, Damage, catalogVars, runtime
<1> QED BY <1>1, <1>2, <1>3, RefreshHeld DEF CatalogNext
-----------------------------------------------------------------------------
(* The threads of the application. *)

IsMine(mine) ==
  /\ mine \in UserState
  /\ mine.known <= generation
  /\ mine.step \in {"cached", "rotated"} =>
       mine.loaded \in Loaded /\ Consistent(mine.key, mine.known, mine.loaded, mine.own)

LEMMA UsersInvOfEach ==
  UsersInv <=> user \in [Users -> UserState] /\ \A u \in Users : IsMine(user[u])
BY DEF UsersInv, IsMine, Rotating

LEMMA OthersStay ==
  ASSUME UsersInv, RuntimeTypeOK, NEW u \in Users, NEW mine,
         user' = [user EXCEPT ![u] = mine], IsMine(mine)',
         UNCHANGED <<client, generation>> \/ generation' = generation + 1
  PROVE  UsersInv'
<1>1. user \in [Users -> UserState] /\ mine \in UserState
  BY UsersInvOfEach DEF IsMine
<1>2. ASSUME NEW v \in Users, v # u PROVE IsMine(user[v])'
  <2>1. IsMine(user[v]) /\ user[v].known \in Nat /\ user'[v] = user[v]
    BY <1>1, <1>2, UsersInvOfEach DEF UserState
  <2> QED BY <2>1, CatalogAssumption DEF IsMine, Consistent, RuntimeTypeOK
<1>3. IsMine(user[u])'
  BY <1>1
<1> QED BY <1>1, <1>2, <1>3 DEF UsersInv, IsMine, Rotating

LEMMA IdleIsMine ==
  ASSUME generation' \in Nat, NEW at \in UserSteps \ {"cached", "rotated"},
         NEW mine, mine = [IdleUser EXCEPT !.step = at]
  PROVE  IsMine(mine)'
BY DEF IsMine, IdleUser, UserState, Optional

LEMMA UsersStep ==
  ASSUME CatalogInv, [CatalogNext]_catalogVars PROVE UsersInv'
<1> USE DEF CatalogInv
<1>0. generation \in Nat /\ snapshot \in Optional(Loaded)
  BY CatalogAssumption DEF RuntimeTypeOK
<1> DEFINE Stays == UNCHANGED <<user, client, generation>>
<1>1. CASE Stays
  BY <1>1 DEF UsersInv, Consistent, Rotating
<1>2. ASSUME NEW u \in Users, UserNext(u) PROVE UsersInv'
  <2>1. CASE RotateKey(u)
    <3>1. PICK key \in Optional(Keys) :
            /\ client' = key /\ generation' = generation + 1
            /\ user' = [user EXCEPT ![u] =
                 IF snapshot = None THEN IdleUser
                 ELSE [IdleUser EXCEPT !.step = "cached", !.key = key,
                                       !.known = generation + 1, !.loaded = snapshot]]
      BY <2>1 DEF RotateKey, Optional
    <3>2. IsMine(IdleUser)'
      BY <1>0, <3>1 DEF IsMine, IdleUser, UserState, UserSteps, Optional
    <3>3. ASSUME NEW mine, snapshot # None,
                 mine = [IdleUser EXCEPT !.step = "cached", !.key = key,
                                         !.known = generation + 1, !.loaded = snapshot]
          PROVE  IsMine(mine)'
      <4>1. snapshot \in Loaded
        BY <1>0, <3>3 DEF Optional
      <4>2. mine = [step |-> "cached", key |-> key, known |-> generation + 1,
                    loaded |-> snapshot, own |-> None]
        BY <3>3 DEF IdleUser
      <4>3. /\ mine.step = "cached" /\ mine.key = key /\ mine.known = generation + 1
            /\ mine.loaded = snapshot /\ mine.own = None
        BY <4>2
      <4>4. mine \in UserState
        BY <1>0, <3>1, <4>1, <4>2 DEF UserState, UserSteps, Optional
      <4> QED BY <1>0, <3>1, <4>1, <4>3, <4>4 DEF IsMine, Consistent
    <3> QED BY <3>1, <3>2, <3>3, OthersStay
  <2>2. CASE ReadRotated(u)
    <3> DEFINE mine == user[u]
               own == IF mine.key = None THEN None ELSE CachedOverlay(mine.key, mine.loaded)
    <3>1. UNCHANGED <<client, generation>>
      BY <2>2 DEF ReadRotated, runtime
    <3>2. /\ mine \in UserState /\ mine.step = "cached" /\ mine.known <= generation
          /\ mine.loaded \in Loaded /\ (mine.known = generation => mine.key = client)
      BY <2>2 DEF ReadRotated, UsersInv, Rotating, Consistent
    <3>3. own \in Optional(Overlays)
          /\ (own # None => own.release = mine.loaded.release /\ own.key = mine.key)
      BY OwnOverlayType
    <3>4. \/ user' = [user EXCEPT ![u] = IdleUser]
          \/ user' = [user EXCEPT ![u] = [mine EXCEPT !.step = "rotated", !.own = own]]
      BY <2>2 DEF ReadRotated
    <3>5. IsMine(IdleUser)'
      BY <1>0, <3>1 DEF IsMine, IdleUser, UserState, UserSteps, Optional
    <3>6. ASSUME NEW new, new = [mine EXCEPT !.step = "rotated", !.own = own]
          PROVE  IsMine(new)'
      <4> HIDE DEF mine, own
      <4>1. /\ new.step = "rotated" /\ new.key = mine.key /\ new.known = mine.known
            /\ new.loaded = mine.loaded /\ new.own = own /\ new \in UserState
        BY <3>2, <3>3, <3>6 DEF UserState, UserSteps
      <4> QED BY <1>0, <3>1, <3>2, <3>3, <4>1 DEF IsMine, Consistent
    <3> QED BY <3>1, <3>4, <3>5, <3>6, OthersStay
  <2>3. CASE ApplyRotated(u) \/ SwapImported(u) \/ CloseTheStore(u)
    <3>1. user' = [user EXCEPT ![u] = IdleUser] /\ UNCHANGED <<client, generation>>
      BY <2>3 DEF ApplyRotated, SwapImported, CloseTheStore, runtime, SwapOnly
    <3>2. IsMine(IdleUser)'
      BY <1>0, <3>1 DEF IsMine, IdleUser, UserState, UserSteps, Optional
    <3> QED BY <3>1, <3>2, OthersStay
  <2>4. CASE ImportBundle(u) \/ CloseStops(u) \/ CloseAsksTheThread(u)
    <3>1. PICK at \in {"swap", "leave", "join"} :
            user' = [user EXCEPT ![u] = [IdleUser EXCEPT !.step = at]]
      BY <2>4 DEF ImportBundle, CloseStops, CloseAsksTheThread
    <3>2. UNCHANGED <<client, generation>>
      BY <2>4 DEF ImportBundle, CloseStops, CloseAsksTheThread, runtime
    <3>3. IsMine([IdleUser EXCEPT !.step = at])'
      BY <1>0, <3>2, IdleIsMine DEF UserSteps
    <3> QED BY <3>1, <3>2, <3>3, OthersStay
  <2> QED BY <1>2, <2>1, <2>2, <2>3, <2>4 DEF UserNext
<1>3. RefreshNext => Stays
  BY DEF RefreshNext, AskForManifest, ServerAnswers, RequestFails, RejectManifest,
     RejectArtifacts, RefreshFailsAt, AcceptUnmodified, ReadUnmodified, ConsiderManifest,
     ArtifactsArrive, ActivateManifest, ReadActivated, KeepLastKnownGood, TakeClient,
     OverlayArrives, OverlayIsWithheld, CompareWithCurrent, Apply, RetakeClient, Reapply,
     ThreadLeaves, runtime, SwapOnly
<1>4. LoadCached \/ Publish \/ OtherProcessActivates \/ Expire \/ Damage
        \/ UNCHANGED catalogVars => Stays
  BY DEF LoadCached, Publish, OtherProcessActivates, Expire, Damage, catalogVars, runtime,
     SwapOnly
<1> QED BY <1>1, <1>2, <1>3, <1>4 DEF CatalogNext
-----------------------------------------------------------------------------
(* The engines: which overlay they use. *)

EnginesInv == RuntimeTypeOK /\ OverlayIsCurrent

\* A swap puts an overlay in use that goes with the release and the present key.
LEMMA SwapKeeps ==
  ASSUME RuntimeTypeOK, UNCHANGED <<client, generation>>,
         NEW loaded \in Loaded, NEW own \in Optional(Overlays),
         own # None => own.release = loaded.release /\ own.key = client,
         snapshot' = loaded, overlay' = own
  PROVE  EnginesInv'
<1>1. loaded # None
  BY NoneIsApart
<1>2. RuntimeTypeOK'
  BY DEF RuntimeTypeOK, Optional
<1> QED
  BY <1>1, <1>2
     DEF EnginesInv, OverlayIsCurrent, OverlayFitsItsRelease, OverlayOfTheCurrentKey

\* Who is about to replace the overlay of a former key is still about to.
StillRotating ==
  \A u \in Users : Rotating(u) /\ user[u].known = generation
                     => Rotating(u)' /\ user'[u].known = generation

LEMMA NoSwapKeeps ==
  ASSUME RuntimeTypeOK, OverlayIsCurrent,
         UNCHANGED <<snapshot, overlay, client, generation>>,
         closed => closed', closed' \/ StillRotating
  PROVE  EnginesInv'
<1>1. RuntimeTypeOK' /\ OverlayFitsItsRelease'
  BY DEF RuntimeTypeOK, OverlayIsCurrent, OverlayFitsItsRelease
<1>2. OverlayOfTheCurrentKey'
  BY DEF OverlayIsCurrent, OverlayOfTheCurrentKey, StillRotating, Rotating
<1> QED BY <1>1, <1>2 DEF EnginesInv, OverlayIsCurrent

LEMMA RefreshEngines ==
  ASSUME CatalogInv, RefreshNext PROVE EnginesInv'
<1> USE DEF CatalogInv
<1>1. CASE Apply \/ Reapply
  <2>1. CASE held.known = generation
    <3>1. /\ held.loaded \in Loaded /\ held.own \in Optional(Overlays)
          /\ held.own # None => held.own.release = held.loaded.release
                                /\ held.own.key = client
      BY <1>1, <2>1 DEF Apply, Reapply, HeldInv, Held, HeldForItsStep, Consistent
    <3>2. /\ snapshot' = held.loaded /\ overlay' = held.own
          /\ UNCHANGED <<client, generation>>
      BY <1>1, <2>1 DEF Apply, Reapply, SwapIn, SwapOnly
    <3> QED BY <3>1, <3>2, SwapKeeps
  <2>2. CASE held.known # generation
    BY <1>1, <2>2, NoSwapKeeps
       DEF Apply, Reapply, SwapIn, SwapOnly, store, StillRotating, Rotating
  <2> QED BY <2>1, <2>2
<1>2. ~Apply /\ ~Reapply => UNCHANGED <<snapshot, overlay, client, generation, user>>
  BY DEF RefreshNext, AskForManifest, ServerAnswers, RequestFails, RejectManifest,
     RejectArtifacts, RefreshFailsAt, AcceptUnmodified, ReadUnmodified, ConsiderManifest,
     ArtifactsArrive, ActivateManifest, ReadActivated, KeepLastKnownGood, TakeClient,
     OverlayArrives, OverlayIsWithheld, CompareWithCurrent, RetakeClient, ThreadLeaves,
     runtime, SwapOnly
<1>3. closed => closed'
  BY DEF RefreshNext, AskForManifest, ServerAnswers, RequestFails, RejectManifest,
     RejectArtifacts, RefreshFailsAt, AcceptUnmodified, ReadUnmodified, ConsiderManifest,
     ArtifactsArrive, ActivateManifest, ReadActivated, KeepLastKnownGood, TakeClient,
     OverlayArrives, OverlayIsWithheld, CompareWithCurrent, Apply, RetakeClient, Reapply,
     ThreadLeaves, store, MarkChecked, Activate, SaveOverlay
<1> QED BY <1>1, <1>2, <1>3, NoSwapKeeps DEF StillRotating, Rotating

LEMMA UserEngines ==
  ASSUME CatalogInv, NEW u \in Users, UserNext(u) PROVE EnginesInv'
<1> USE DEF CatalogInv
<1>0. user \in [Users -> UserState] /\ generation \in Nat
  BY CatalogAssumption DEF UsersInv, RuntimeTypeOK
<1>1. CASE RotateKey(u)
  <2>1. PICK key \in Optional(Keys) :
          /\ client' = key /\ generation' = generation + 1
          /\ user' = [user EXCEPT ![u] =
               IF snapshot = None THEN IdleUser
               ELSE [IdleUser EXCEPT !.step = "cached", !.key = key,
                                     !.known = generation + 1, !.loaded = snapshot]]
    BY <1>1 DEF RotateKey, Optional
  <2>2. generation < MaxRotations /\ UNCHANGED <<snapshot, overlay>>
    BY <1>1 DEF RotateKey
  <2>3. RuntimeTypeOK' /\ OverlayFitsItsRelease'
    BY <1>0, <2>1, <2>2, CatalogAssumption
       DEF RuntimeTypeOK, OverlayIsCurrent, OverlayFitsItsRelease
  <2>4. OverlayOfTheCurrentKey'
    <3>1. CASE snapshot = None
      BY <2>2, <2>3, <3>1 DEF OverlayFitsItsRelease, OverlayOfTheCurrentKey
    <3>2. CASE snapshot # None
      <4>1. user'[u].step = "cached" /\ user'[u].known = generation'
        BY <1>0, <2>1, <3>2 DEF IdleUser
      <4> QED BY <4>1 DEF OverlayOfTheCurrentKey
    <3> QED BY <3>1, <3>2
  <2> QED BY <2>3, <2>4 DEF EnginesInv, OverlayIsCurrent
<1>2. CASE ReadRotated(u)
  <2>1. UNCHANGED <<snapshot, overlay, client, generation, closed>> /\ Rotating(u)
    BY <1>2 DEF ReadRotated, store, runtime, Rotating
  <2>2. CASE closed
    BY <2>1, <2>2, NoSwapKeeps
  <2>3. CASE ~closed
    <3>1. PICK own : user' = [user EXCEPT ![u] =
                                [user[u] EXCEPT !.step = "rotated", !.own = own]]
      BY <1>2, <2>3 DEF ReadRotated
    <3>2. user'[u].step = "rotated" /\ user'[u].known = user[u].known
      BY <1>0, <3>1 DEF UserState
    <3>3. \A v \in Users : v # u => user'[v] = user[v]
      BY <1>0, <3>1
    <3>4. StillRotating
      BY <3>2, <3>3 DEF StillRotating, Rotating
    <3> QED BY <2>1, <3>4, NoSwapKeeps
  <2> QED BY <2>2, <2>3
<1>3. CASE ApplyRotated(u)
  <2>1. /\ UNCHANGED <<client, generation, closed>> /\ Rotating(u)
        /\ user' = [user EXCEPT ![u] = IdleUser]
    BY <1>3 DEF ApplyRotated, store, SwapOnly, Rotating
  <2>2. CASE user[u].known = generation
    <3>1. /\ user[u].loaded \in Loaded /\ user[u].own \in Optional(Overlays)
          /\ user[u].own # None => user[u].own.release = user[u].loaded.release
                                   /\ user[u].own.key = client
      BY <1>0, <2>1, <2>2 DEF UsersInv, UserState, Consistent
    <3>2. snapshot' = user[u].loaded /\ overlay' = user[u].own
      BY <1>3, <2>2 DEF ApplyRotated, SwapIn
    <3> QED BY <2>1, <3>1, <3>2, SwapKeeps
  <2>3. CASE user[u].known # generation
    <3>1. UNCHANGED <<snapshot, overlay>>
      BY <1>3, <2>3 DEF ApplyRotated, SwapIn
    <3>2. \A v \in Users : v # u => user'[v] = user[v]
      BY <1>0, <2>1
    <3>3. StillRotating
      BY <2>3, <3>2 DEF StillRotating, Rotating
    <3> QED BY <2>1, <3>1, <3>3, NoSwapKeeps
  <2> QED BY <2>2, <2>3
<1>4. CASE SwapImported(u)
  <2>1. /\ UNCHANGED <<client, generation, closed>> /\ ~Rotating(u)
        /\ user' = [user EXCEPT ![u] = IdleUser]
    BY <1>4 DEF SwapImported, store, SwapOnly, Rotating
  <2>2. CASE Readable(active) /\ ~closed
    <3> DEFINE loaded == Load(active, "active")
               own == IF client = None THEN None ELSE CachedOverlay(client, loaded)
    <3>1. loaded \in Loaded
      BY <2>2, LoadType DEF Readable
    <3>2. /\ own \in Optional(Overlays)
          /\ own # None => own.release = loaded.release /\ own.key = client
      BY OwnOverlayType
    <3>3. snapshot' = loaded /\ overlay' = own
      BY <1>4, <2>2 DEF SwapImported
    <3> HIDE DEF loaded, own
    <3> QED BY <2>1, <3>1, <3>2, <3>3, SwapKeeps
  <2>3. CASE closed \/ ~Readable(active)
    <3>1. UNCHANGED <<snapshot, overlay>>
      BY <1>4, <2>3 DEF SwapImported
    <3>2. \A v \in Users : v # u => user'[v] = user[v]
      BY <1>0, <2>1
    <3>3. StillRotating
      BY <2>1, <3>2 DEF StillRotating, Rotating
    <3> QED BY <2>1, <3>1, <3>3, NoSwapKeeps
  <2> QED BY <2>2, <2>3
<1>5. CASE ImportBundle(u) \/ CloseStops(u) \/ CloseAsksTheThread(u) \/ CloseTheStore(u)
  <2>1. /\ UNCHANGED <<snapshot, overlay, client, generation>> /\ ~Rotating(u)
        /\ closed => closed'
        /\ \A v \in Users : v # u => user'[v] = user[v]
    BY <1>0, <1>5
       DEF ImportBundle, CloseStops, CloseAsksTheThread, CloseTheStore, Activate, IdleUser,
           store, runtime, Rotating
  <2>2. StillRotating
    BY <2>1 DEF StillRotating, Rotating
  <2> QED BY <2>1, <2>2, NoSwapKeeps
<1> QED BY <1>1, <1>2, <1>3, <1>4, <1>5 DEF UserNext

LEMMA EnginesStep ==
  ASSUME CatalogInv, [CatalogNext]_catalogVars PROVE EnginesInv'
<1> USE DEF CatalogInv
<1>1. CASE LoadCached
  <2>1. UNCHANGED <<client, generation, closed, user>> /\ snapshot' = BestAvailable
    BY <1>1 DEF LoadCached, store, SwapOnly
  <2>2. CASE BestAvailable = None
    <3>1. snapshot' = None /\ overlay' = None
      BY <1>1, <2>2 DEF LoadCached
    <3> QED
      BY <2>1, <3>1
         DEF EnginesInv, RuntimeTypeOK, Optional, OverlayIsCurrent, OverlayFitsItsRelease,
             OverlayOfTheCurrentKey
  <2>3. CASE BestAvailable # None
    <3>1. BestAvailable \in Loaded
      BY <2>3, BestAvailableType DEF Optional
    <3>2. overlay' = CachedOverlay(client, BestAvailable)
      BY <1>1, <2>3 DEF LoadCached
    <3>3. /\ overlay' \in Optional(Overlays)
          /\ overlay' # None => overlay'.release = BestAvailable.release
                                /\ overlay'.key = client
      BY <3>2, CachedOverlayType
    <3> QED BY <2>1, <3>1, <3>3, SwapKeeps
  <2> QED BY <2>2, <2>3
<1>2. CASE Publish \/ OtherProcessActivates \/ Expire \/ Damage \/ UNCHANGED catalogVars
  <2>1. UNCHANGED <<snapshot, overlay, client, generation, closed, user>>
    BY <1>2
       DEF Publish, OtherProcessActivates, Expire, Damage, catalogVars, store, runtime, Activate
  <2> QED BY <2>1, NoSwapKeeps DEF StillRotating, Rotating
<1> QED BY <1>1, <1>2, RefreshEngines, UserEngines DEF CatalogNext

\* The thread that is gone does not come back, and only then the database is closed.
LEMMA ClosedStep ==
  ASSUME CatalogInv, [CatalogNext]_catalogVars
  PROVE  StoreOutlivesItsThread'
<1> USE DEF CatalogInv, StoreOutlivesItsThread
<1>2. CASE ThreadLeaves \/ \E u \in Users : CloseTheStore(u)
  BY <1>2 DEF ThreadLeaves, CloseTheStore
<1>3. CASE LoadCached \/ (RefreshNext /\ ~ThreadLeaves)
  BY <1>3
  DEF LoadCached, RefreshNext, AskForManifest, ServerAnswers, RequestFails, RejectManifest,
     RejectArtifacts, RefreshFailsAt, AcceptUnmodified, ReadUnmodified, ConsiderManifest,
     ArtifactsArrive, ActivateManifest, ReadActivated, KeepLastKnownGood, TakeClient,
     OverlayArrives, OverlayIsWithheld, CompareWithCurrent, Apply, RetakeClient, Reapply,
     store, MarkChecked, Activate, SaveOverlay
<1>4. ASSUME NEW u \in Users, UserNext(u), ~CloseTheStore(u)
      PROVE  closed' = closed /\ step' = step
  BY <1>4
  DEF UserNext, RotateKey, ReadRotated, ApplyRotated, ImportBundle, SwapImported,
     CloseStops, CloseAsksTheThread, store, Activate
<1>5. CASE Publish \/ OtherProcessActivates \/ Expire \/ Damage \/ UNCHANGED catalogVars
  BY <1>5 DEF Publish, OtherProcessActivates, Expire, Damage, catalogVars, store, Activate
<1> QED BY <1>2, <1>3, <1>4, <1>5 DEF CatalogNext
-----------------------------------------------------------------------------
(* The theorems. *)

LEMMA CatalogInitInv == CatalogInit => CatalogInv
<1> SUFFICES ASSUME CatalogInit PROVE CatalogInv
  OBVIOUS
<1> USE CatalogAssumption DEF CatalogInit
<1>1. StoreInv
  <2>1. kept \in [1 .. MaxSequence -> Payloads \union {"absent"}]
    BY DEF Payloads
  <2>2. overlays \subseteq Overlays
    <3> SUFFICES ASSUME NEW own \in overlays PROVE own \in Overlays
      OBVIOUS
    <3>1. PICK k \in Keys, s \in {active} \ {0} :
            own = [key |-> k, release |-> [sequence |-> s, content |-> "right"]]
      OBVIOUS
    <3> QED BY <3>1 DEF Overlays, Releases, Payloads
  <2>3. active # 0 => kept[active] # "absent"
    OBVIOUS
  <2> QED BY <2>1, <2>2, <2>3
          DEF StoreInv, StoreTypeOK, FallbackIsAnother, IsKept, Optional, Releases, Payloads
<1>2. RuntimeTypeOK /\ OverlayIsCurrent
  BY DEF RuntimeTypeOK, Optional, OverlayIsCurrent, OverlayFitsItsRelease,
         OverlayOfTheCurrentKey
<1>3. HeldInv
  BY DEF HeldInv, HeldForItsStep, NothingHeld, Held, Optional, CatalogSteps, IsKept
<1>4. UsersInv
  BY DEF UsersInv, IdleUser, UserState, UserSteps, Optional, Rotating
<1> QED BY <1>1, <1>2, <1>3, <1>4 DEF CatalogInv, StoreOutlivesItsThread

LEMMA CatalogStepInv == CatalogInv /\ [CatalogNext]_catalogVars => CatalogInv'
BY StoreStep, HeldStep, UsersStep, EnginesStep, ClosedStep DEF CatalogInv, EnginesInv

\* Every variable of the catalog holds a value of its kind, for any number of
\* threads and keys and any bounds.
THEOREM CatalogTypeCorrect == CatalogSpec => []CatalogTypeOK
<1>1. CatalogInv => CatalogTypeOK
  BY DEF CatalogInv, StoreInv, StoreTypeOK, RuntimeTypeOK, CatalogTypeOK, Optional
<1> QED BY CatalogInitInv, CatalogStepInv, <1>1, PTL DEF CatalogSpec

\* Whatever the refresh, the threads of the application, the other process, the
\* server and the disk do, there is a release to fall back on, "not modified" hides
\* no release, and the database stays open as long as its thread lives
\* (activate, mark_checked, best_available, close).
THEOREM StoreStaysSound == CatalogSpec => []StoreIsSound
<1>1. CatalogInv => StoreIsSound
  <2> SUFFICES ASSUME CatalogInv PROVE StoreIsSound
    OBVIOUS
  <2>1. FallbackIsAnother /\ StoreOutlivesItsThread /\ IsKept(etag)
    BY DEF CatalogInv, StoreInv
  <2> QED BY <2>1 DEF StoreIsSound, NotModifiedHidesNothing, IsKept
<1> QED BY CatalogInitInv, CatalogStepInv, <1>1, PTL DEF CatalogSpec

\* The rates a workspace is charged by go with the release in use and with the
\* current key, whichever of a refresh, a change of the key and an import came last
\* (_apply, set_api_key, refresh_once, import_bundle).
THEOREM OverlayStaysCurrent == CatalogSpec => []OverlayIsCurrent
<1>1. CatalogInv => OverlayIsCurrent
  BY DEF CatalogInv
<1> QED BY CatalogInitInv, CatalogStepInv, <1>1, PTL DEF CatalogSpec

\* The active release never becomes an older one and no release changes its
\* content, whichever of the parties activates (CatalogReleaseStore.activate).
THEOREM ReleasesAdvance == CatalogSpec => ReleasesOnlyAdvance
<1>1. CatalogInv /\ [CatalogNext]_catalogVars =>
        [ /\ active' >= active
          /\ \A s \in 1 .. MaxSequence : kept[s] # "absent" => kept'[s] = kept[s]
        ]_catalogVars
  BY StoreStep DEF StoreAdvances
<1> QED BY CatalogInitInv, CatalogStepInv, <1>1, PTL DEF CatalogSpec, ReleasesOnlyAdvance
-----------------------------------------------------------------------------
(***************************************************************************)
(* SchemaMigrations: the inductive invariant.                              *)
(***************************************************************************)
Places == {"closed", "indexes", "count", "seed", "read", "begin", "migrate", "open", "busy",
           "no such column"}

OpenerOK(r) == /\ r = [at |-> r.at, version |-> r.version, fresh |-> r.fresh]
               /\ r.at \in Places /\ r.version \in 0 .. Target

SchemaTypeOK ==
  /\ schema \in SUBSET Steps
  /\ versions \in Seq(Steps)
  /\ opener = [o \in Openers |-> opener[o]]
  /\ \A o \in Openers : OpenerOK(opener[o])

\* A file without a version row is empty or was made just now, with all its columns.
UnseededIsNew == versions = <<>> => schema \in {{}, Steps}

\* What a process has found out stays true, as nothing is ever taken out of the file.
OpenersKnow ==
  \A o \in Openers :
    /\ opener[o].at \in {"indexes", "count"} => schema # {}
    /\ opener[o].at \in {"seed", "open"} => schema = Steps
    /\ opener[o].at \in {"begin", "migrate"} =>
         opener[o].version < Target /\ 1 .. opener[o].version \subseteq schema

SchemaInv == SchemaTypeOK /\ VersionsAreTrue /\ UnseededIsNew /\ OpenersKnow
-----------------------------------------------------------------------------
LEMMA StepsAreNumbers ==
  /\ Target \in Nat /\ Target # 0 /\ Steps = 1 .. Target
  /\ 1 \in Steps /\ Target \in Steps /\ Steps # {}
BY MigrationAssumption DEF Steps

LEMMA ColumnsComeLater ==
  ColumnSteps \subseteq Steps /\ 1 \in TableSteps /\ TableSteps \subseteq Steps
BY MigrationAssumption DEF Steps, TableSteps

\* A row more at the end.
LEMMA AppendedVersions ==
  ASSUME versions \in Seq(Steps), NEW v \in Steps
  PROVE  /\ Append(versions, v) \in Seq(Steps)
         /\ Append(versions, v) # <<>>
         /\ \A i \in DOMAIN Append(versions, v) :
              \/ i \in DOMAIN versions /\ Append(versions, v)[i] = versions[i]
              \/ Append(versions, v)[i] = v
OBVIOUS

LEMMA MadeOK ==
  ASSUME NEW at \in Places, NEW v \in 0 .. Target, NEW fresh
  PROVE  OpenerOK([at |-> at, version |-> v, fresh |-> fresh])
BY DEF OpenerOK

LEMMA FreshOK ==
  ASSUME NEW at \in Places, NEW v \in 0 .. Target
  PROVE  OpenerOK([at |-> at, version |-> v, fresh |-> TRUE])
BY MadeOK, Zenon

LEMMA SchemaInitInv == SchemaInit => SchemaInv
<1> SUFFICES ASSUME SchemaInit PROVE SchemaInv
  OBVIOUS
<1>1. OpenersKnow
  BY DEF SchemaInit, Closed, OpenersKnow
<1>2. opener = [o \in Openers |-> opener[o]] /\ \A o \in Openers : OpenerOK(opener[o])
  <2>1. opener = [o \in Openers |-> Closed]
    BY DEF SchemaInit
  <2>2. "closed" \in Places /\ 0 \in 0 .. Target
    BY StepsAreNumbers DEF Places
  <2>3. OpenerOK(Closed)
    BY <2>2, FreshOK, Zenon DEF Closed
  <2> QED BY <2>1, <2>3, Zenon
<1>3. schema \in SUBSET Steps /\ versions \in Seq(Steps) /\ VersionsAreTrue /\ UnseededIsNew
  <2>1. CASE schema = {} /\ versions = <<>>
    BY <2>1 DEF VersionsAreTrue, UnseededIsNew
  <2>2. ASSUME NEW v \in OldestFile .. Target, schema = 1 .. v, versions = <<v>>
        PROVE  /\ schema \in SUBSET Steps /\ versions \in Seq(Steps)
               /\ VersionsAreTrue /\ UnseededIsNew
    <3>1. v \in Steps /\ schema \in SUBSET Steps
      BY <2>2, MigrationAssumption DEF Steps
    <3> QED BY <2>2, <3>1 DEF VersionsAreTrue, UnseededIsNew
  <2> QED BY <2>1, <2>2 DEF SchemaInit
<1> QED BY <1>1, <1>2, <1>3 DEF SchemaInv, SchemaTypeOK

\* A step that moves one process and leaves the file alone.
LEMMA FileKept ==
  ASSUME SchemaInv, UNCHANGED <<schema, versions>>
  PROVE  VersionsAreTrue' /\ UnseededIsNew'
BY DEF SchemaInv, VersionsAreTrue, UnseededIsNew

LEMMA OneMoves ==
  ASSUME SchemaInv, UNCHANGED <<schema, versions>>, NEW o \in Openers,
         NEW at \in Places, NEW version \in 0 .. Target, NEW r, OpenerOK(r),
         r.at = at, r.version = version,
         opener' = [opener EXCEPT ![o] = r],
         at \in {"indexes", "count"} => schema # {},
         at \in {"seed", "open"} => schema = Steps,
         at \in {"begin", "migrate"} => version < Target /\ 1 .. version \subseteq schema
  PROVE  SchemaInv'
<1>1. /\ opener' = [p \in Openers |-> opener'[p]] /\ opener'[o] = r
      /\ \A p \in Openers \ {o} : opener'[p] = opener[p]
  BY DEF SchemaInv, SchemaTypeOK
<1>2. \A p \in Openers : OpenerOK(opener'[p])
  BY <1>1 DEF SchemaInv, SchemaTypeOK
<1>3. SchemaTypeOK'
  BY <1>1, <1>2 DEF SchemaInv, SchemaTypeOK
<1>4. OpenersKnow'
  BY <1>1 DEF SchemaInv, OpenersKnow
<1> QED BY <1>3, <1>4, FileKept DEF SchemaInv

LEMMA MoveKeeps ==
  ASSUME SchemaInv, UNCHANGED <<schema, versions>>, NEW o \in Openers,
         NEW at \in Places, Move(o, at),
         at \in {"indexes", "count"} => schema # {},
         at \in {"seed", "open"} => schema = Steps,
         at \notin {"begin", "migrate"}
  PROVE  SchemaInv'
<1> DEFINE r == [opener[o] EXCEPT !.at = at]
<1>1. opener' = [opener EXCEPT ![o] = r]
  BY DEF Move
<1>2. OpenerOK(r) /\ r.at = at /\ r.version \in 0 .. Target
  BY DEF SchemaInv, SchemaTypeOK, OpenerOK
<1> HIDE DEF r
<1> QED BY <1>1, <1>2, OneMoves

\* A commit adds to the file.
LEMMA CommitKeeps ==
  ASSUME SchemaInv, NEW o \in Openers,
         NEW at \in {"indexes", "read", "begin", "open"}, NEW v \in 0 .. Target,
         MoveAndCommit(o, at, v),
         schema' \in SUBSET Steps, schema \subseteq schema',
         at = "indexes" => schema' # {},
         at = "open" => schema' = Steps,
         at = "begin" => v < Target /\ 1 .. v \subseteq schema'
  PROVE  /\ OpenersKnow'
         /\ opener' = [p \in Openers |-> opener'[p]]
         /\ \A p \in Openers : OpenerOK(opener'[p])
<1>1. /\ opener' = [p \in Openers |-> opener'[p]]
      /\ \A p \in Openers :
           opener'[p] = IF p = o THEN [at |-> at, version |-> v, fresh |-> TRUE]
                        ELSE [opener[p] EXCEPT !.fresh = FALSE]
  BY DEF MoveAndCommit
<1>2. OpenerOK(opener'[o]) /\ opener'[o].at = at /\ opener'[o].version = v
  <2>1. opener'[o] = [at |-> at, version |-> v, fresh |-> TRUE]
    BY <1>1
  <2>2. at \in Places
    BY DEF Places
  <2>3. OpenerOK([at |-> at, version |-> v, fresh |-> TRUE])
    BY <2>2, FreshOK, Zenon
  <2> QED BY <2>1, <2>3
<1>3. ASSUME NEW p \in Openers, p # o
      PROVE  /\ OpenerOK(opener'[p])
             /\ opener'[p].at = opener[p].at /\ opener'[p].version = opener[p].version
  BY <1>1, <1>3 DEF SchemaInv, SchemaTypeOK, OpenerOK
<1>4. \A p \in Openers : OpenerOK(opener'[p])
  BY <1>2, <1>3
<1>5. ASSUME NEW p \in Openers
      PROVE  /\ opener'[p].at \in {"indexes", "count"} => schema' # {}
             /\ opener'[p].at \in {"seed", "open"} => schema' = Steps
             /\ opener'[p].at \in {"begin", "migrate"} =>
                  opener'[p].version < Target /\ 1 .. opener'[p].version \subseteq schema'
  <2>1. CASE p = o
    BY <1>2, <2>1
  <2>2. CASE p # o
    BY <1>3, <2>2 DEF SchemaInv, SchemaTypeOK, OpenersKnow
  <2> QED BY <2>1, <2>2
<1>6. OpenersKnow'
  BY <1>5 DEF OpenersKnow
<1> QED BY <1>1, <1>4, <1>6

LEMMA CreateTablesKeeps ==
  ASSUME SchemaInv, NEW o \in Openers, CreateTables(o)
  PROVE  SchemaInv'
<1>1. /\ schema' \in SUBSET Steps /\ schema \subseteq schema' /\ schema' # {}
      /\ schema = {} => schema' = Steps
      /\ schema = Steps => schema' = Steps
  BY StepsAreNumbers, ColumnsComeLater DEF SchemaInv, SchemaTypeOK, CreateTables, Created
<1>2. /\ opener[o].at = "closed" /\ MoveAndCommit(o, "indexes", 0) /\ versions' = versions
      /\ 0 \in 0 .. Target
  BY StepsAreNumbers DEF CreateTables
<1>3. SchemaTypeOK' /\ OpenersKnow'
  BY <1>1, <1>2, CommitKeeps DEF SchemaInv, SchemaTypeOK
<1>4. VersionsAreTrue' /\ UnseededIsNew'
  BY <1>1, <1>2 DEF SchemaInv, VersionsAreTrue, UnseededIsNew
<1> QED BY <1>3, <1>4 DEF SchemaInv

LEMMA SeedVersionKeeps ==
  ASSUME SchemaInv, NEW o \in Openers, SeedVersion(o)
  PROVE  SchemaInv'
<1>1. /\ schema' = schema /\ versions' = Append(versions, Target)
      /\ MoveAndCommit(o, "read", 0) /\ schema = Steps
      /\ 0 \in 0 .. Target
  BY StepsAreNumbers DEF SchemaInv, OpenersKnow, SeedVersion
<1>2. SchemaTypeOK' /\ OpenersKnow'
  BY <1>1, CommitKeeps, AppendedVersions, StepsAreNumbers DEF SchemaInv, SchemaTypeOK
<1>3. VersionsAreTrue' /\ UnseededIsNew'
  <2>1. \A i \in DOMAIN versions' : 1 .. versions'[i] \subseteq schema'
    BY <1>1, AppendedVersions, StepsAreNumbers DEF SchemaInv, SchemaTypeOK, VersionsAreTrue
  <2> QED BY <1>1, <2>1 DEF VersionsAreTrue, UnseededIsNew
<1> QED BY <1>2, <1>3 DEF SchemaInv

LEMMA ReadVersionKeeps ==
  ASSUME SchemaInv, NEW o \in Openers, ReadVersion(o)
  PROVE  SchemaInv'
<1>1. Recorded \in 0 .. Target /\ 1 .. Recorded \subseteq schema
  <2>1. CASE versions = <<>>
    BY <2>1, StepsAreNumbers DEF Recorded
  <2>2. CASE versions # <<>>
    <3>0. versions \in Seq(Steps)
      BY DEF SchemaInv, SchemaTypeOK
    <3>1. Len(versions) \in DOMAIN versions /\ versions[Len(versions)] \in Steps
      BY <2>2, <3>0
    <3>2. Recorded = versions[Len(versions)] /\ Recorded \in Steps
      BY <2>2, <3>1 DEF Recorded, Last
    <3> QED BY <3>1, <3>2, StepsAreNumbers DEF SchemaInv, VersionsAreTrue
  <2> QED BY <2>1, <2>2
<1>2. Recorded >= Target => schema = Steps
  <2>1. ASSUME Recorded >= Target PROVE 1 .. Recorded = Steps
    BY <1>1, <2>1, StepsAreNumbers
  <2> QED BY <1>1, <2>1 DEF SchemaInv, SchemaTypeOK
<1> DEFINE at == IF Recorded >= Target THEN "open" ELSE "begin"
<1>3. /\ opener' = [opener EXCEPT ![o] = [at |-> at, version |-> Recorded, fresh |-> TRUE]]
      /\ UNCHANGED <<schema, versions>>
  BY DEF ReadVersion
<1>4. /\ at \in {"open", "begin"}
      /\ at = "open" => schema = Steps
      /\ at = "begin" => Recorded < Target
  BY <1>1, <1>2, StepsAreNumbers
<1> HIDE DEF at
<1> DEFINE r == [at |-> at, version |-> Recorded, fresh |-> TRUE]
<1>5. at \in Places
  BY <1>4 DEF Places
<1>6. OpenerOK(r) /\ r.at = at /\ r.version = Recorded
  <2>1. OpenerOK(r)
    BY <1>1, <1>5, FreshOK, Zenon
  <2> QED BY <2>1
<1> HIDE DEF r
<1>7. opener' = [opener EXCEPT ![o] = r]
  BY <1>3 DEF r
<1> QED BY <1>1, <1>3, <1>4, <1>5, <1>6, <1>7, OneMoves

LEMMA InspectColumnsKeeps ==
  ASSUME SchemaInv, NEW o \in Openers, InspectColumns(o)
  PROVE  SchemaInv'
<1> DEFINE v == opener[o].version
           r == [at |-> "migrate", version |-> v, fresh |-> TRUE]
<1>1. /\ v \in 0 .. Target /\ v < Target /\ 1 .. v \subseteq schema
      /\ opener' = [opener EXCEPT ![o] = r]
      /\ UNCHANGED <<schema, versions>>
  BY DEF SchemaInv, SchemaTypeOK, OpenerOK, OpenersKnow, InspectColumns
<1>2. "migrate" \in Places
  BY DEF Places
<1> HIDE DEF v
<1>3. OpenerOK(r)
  BY <1>1, <1>2, FreshOK, Zenon
<1>4. r.at = "migrate" /\ r.version = v
  OBVIOUS
<1> HIDE DEF r
<1> QED BY <1>1, <1>2, <1>3, <1>4, OneMoves

LEMMA MigrateKeeps ==
  ASSUME SchemaInv, NEW o \in Openers, Migrate(o)
  PROVE  SchemaInv'
<1> DEFINE version == opener[o].version
           next == version + 1
<1>1. /\ schema' = schema \union {next} /\ versions' = Append(versions, next)
      /\ MoveAndCommit(o, After(next), next)
      /\ version \in 0 .. Target /\ version < Target /\ 1 .. version \subseteq schema
  BY DEF Migrate, SchemaInv, SchemaTypeOK, OpenerOK, OpenersKnow
<1> HIDE DEF version
<1>2. /\ next \in Steps /\ next \in 0 .. Target /\ 1 .. next = 1 .. version \union {next}
      /\ After(next) \in {"open", "begin"}
      /\ After(next) = "open" => next = Target
      /\ After(next) = "begin" => next < Target
  BY <1>1, StepsAreNumbers DEF After
<1> HIDE DEF next
<1>3. /\ schema' \in SUBSET Steps /\ schema \subseteq schema' /\ 1 .. next \subseteq schema'
  BY <1>1, <1>2 DEF SchemaInv, SchemaTypeOK
<1>4. After(next) = "open" => schema' = Steps
  BY <1>2, <1>3, StepsAreNumbers
<1>5. SchemaTypeOK' /\ OpenersKnow'
  <2>1. versions' \in Seq(Steps)
    BY <1>1, <1>2, AppendedVersions DEF SchemaInv, SchemaTypeOK
  <2>2. /\ OpenersKnow'
        /\ opener' = [p \in Openers |-> opener'[p]]
        /\ \A p \in Openers : OpenerOK(opener'[p])
    BY <1>1, <1>2, <1>3, <1>4, CommitKeeps
  <2> QED BY <1>3, <2>1, <2>2 DEF SchemaTypeOK
<1>6. VersionsAreTrue' /\ UnseededIsNew'
  <2>1. \A i \in DOMAIN versions' : 1 .. versions'[i] \subseteq schema'
    BY <1>1, <1>2, <1>3, AppendedVersions DEF SchemaInv, SchemaTypeOK, VersionsAreTrue
  <2>2. versions' # <<>>
    BY <1>1, <1>2, AppendedVersions DEF SchemaInv, SchemaTypeOK
  <2> QED BY <2>1, <2>2 DEF VersionsAreTrue, UnseededIsNew
<1> QED BY <1>5, <1>6 DEF SchemaInv

LEMMA WriteKeeps ==
  ASSUME SchemaInv, NEW o \in Openers, Write(o)
  PROVE  SchemaInv'
<1>1. /\ opener[o].version \in 0 .. Target /\ schema = Steps
      /\ MoveAndCommit(o, "open", opener[o].version) /\ UNCHANGED <<schema, versions>>
  BY DEF SchemaInv, SchemaTypeOK, OpenerOK, OpenersKnow, Write
<1> DEFINE v == opener[o].version
<1> HIDE DEF v
<1>2. v \in 0 .. Target /\ MoveAndCommit(o, "open", v)
  BY <1>1 DEF v
<1>3. SchemaTypeOK' /\ OpenersKnow'
  BY <1>1, <1>2, CommitKeeps DEF SchemaInv, SchemaTypeOK
<1> QED BY <1>1, <1>3, FileKept DEF SchemaInv

LEMMA DieKeeps ==
  ASSUME SchemaInv, NEW o \in Openers, Die(o)
  PROVE  SchemaInv'
<1>1. opener' = [opener EXCEPT ![o] = Closed] /\ UNCHANGED <<schema, versions>>
  BY DEF Die
<1>2. "closed" \in Places /\ 0 \in 0 .. Target
  BY StepsAreNumbers DEF Places
<1>3. OpenerOK(Closed)
  BY <1>2, FreshOK, Zenon DEF Closed
<1>4. Closed.at = "closed" /\ Closed.version = 0
  BY DEF Closed
<1> QED BY <1>1, <1>2, <1>3, <1>4, OneMoves

LEMMA SchemaStep == SchemaInv /\ [SchemaNext]_schemaVars => SchemaInv'
<1> SUFFICES ASSUME SchemaInv, [SchemaNext]_schemaVars PROVE SchemaInv'
  OBVIOUS
<1>1. CASE UNCHANGED schemaVars
  BY <1>1 DEF schemaVars, SchemaInv, SchemaTypeOK, VersionsAreTrue, UnseededIsNew, OpenersKnow
<1>2. ASSUME NEW o \in Openers, CreateIndexes(o) PROVE SchemaInv'
  <2>1. opener[o].at = "indexes" /\ schema # {} /\ UNCHANGED <<schema, versions>>
    BY <1>2 DEF CreateIndexes, SchemaInv, OpenersKnow
  <2> QED BY <1>2, <2>1, MoveKeeps DEF CreateIndexes, Places
<1>3. ASSUME NEW o \in Openers, CountVersions(o) PROVE SchemaInv'
  <2>1. /\ schema # {} /\ UNCHANGED <<schema, versions>>
        /\ versions = <<>> => schema = Steps
    BY <1>3 DEF CountVersions, SchemaInv, OpenersKnow, UnseededIsNew
  <2> QED BY <1>3, <2>1, MoveKeeps DEF CountVersions, Places
<1>4. ASSUME NEW o \in Openers, MigrateIsStale(o) \/ IsBusy(o) PROVE SchemaInv'
  BY <1>4, MoveKeeps DEF MigrateIsStale, IsBusy, Places
<1> QED BY <1>1, <1>2, <1>3, <1>4, CreateTablesKeeps, SeedVersionKeeps, ReadVersionKeeps,
           InspectColumnsKeeps, MigrateKeeps, WriteKeeps, DieKeeps DEF SchemaNext

LEMMA SchemaInvariant == SchemaSpec => []SchemaInv
BY SchemaInitInv, SchemaStep, PTL DEF SchemaSpec
-----------------------------------------------------------------------------
\* A version row never says more than the file has, whoever opened it and died on the
\* way (run_sqlite_migrations commits the columns and the row together).
THEOREM VersionRowsAreTrue == SchemaSpec => []VersionsAreTrue
BY SchemaInvariant, PTL DEF SchemaInv

\* An open storage has every table and column of the code (_run_migrations), from
\* whatever version and with whatever other processes.
THEOREM OpenFilesAreComplete == SchemaSpec => []OpenFileIsComplete
<1>1. SchemaInv => OpenFileIsComplete
  BY DEF SchemaInv, OpenersKnow, OpenFileIsComplete
<1> QED BY <1>1, SchemaInvariant, PTL

\* What a file says of its schema is so, for the file and for each process that has it
\* open (_run_migrations, run_sqlite_migrations).
THEOREM FilesStayWhatTheySay == SchemaSpec => []FilesAreWhatTheySay
BY VersionRowsAreTrue, OpenFilesAreComplete, PTL DEF FilesAreWhatTheySay
=============================================================================
