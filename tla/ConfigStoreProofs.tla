-------------------------- MODULE ConfigStoreProofs --------------------------
(***************************************************************************)
(* Proofs about ConfigStore, for every number of versions and all users.   *)
(*                                                                         *)
(* The inductive invariant says that a tag is never ahead of what it labels, *)
(* in RAM, in flash, and across the two (a save copies the tree over a file  *)
(* whose tag is still the old one).  With the portal as the only source, a   *)
(* tag in RAM also implies that a version of the portal runs.               *)
(***************************************************************************)
EXTENDS ConfigStore, TLAPS

\* Nothing the controller knows is newer than the portal.
NothingAhead ==
  /\ root \in Versions => root <= portal
  /\ nvConf \in Versions => nvConf <= portal
  /\ etag <= portal
  /\ nvEtag <= portal

\* The tags are not ahead of the tree in RAM.
TreeNotBehind == root \in Versions => etag <= root /\ nvEtag <= root

\* Between the two writes of a save the file is the tree.
SavedTree == pc = "etag" => nvConf = root

TagInv == TypeOK /\ NothingAhead /\ TreeNotBehind /\ EtagNeverAhead /\ SavedTree

\* The portal is the only source: a tag in RAM comes with a portal's version.
PortalOnly == users \subseteq {"cli"}
TagHasTree ==
  /\ root # Local /\ nvConf # Local /\ pc # "post"
  /\ etag # NoTag => root \in Versions

-----------------------------------------------------------------------------
\* The variables keep their types in every build and with every user.
LEMMA TypeInit == Init => TypeOK
<1>1. 1 \in Versions
  BY MaxVersionAssumption DEF Versions
<1> QED
  BY <1>1 DEF Init, TypeOK, Configs, Tags, Steps, NoTag

\* Every step keeps the types.
LEMMA TypeNext == TypeOK /\ [Next]_vars => TypeOK'
<1> SUFFICES ASSUME TypeOK, [Next]_vars PROVE TypeOK'
  OBVIOUS
<1> USE MaxVersionAssumption, SentinelAssumption
    DEF TypeOK, Configs, Tags, Steps, NoTag, env, ram, nv
<1>1. CASE Boot
  BY <1>1 DEF Boot, LoadStored, Applied, CleanConf
<1>2. CASE Load
  BY <1>2 DEF Load, LoadStored, Applied, CleanConf
<1>3. CASE Get
  BY <1>3 DEF Get, HttpGet, FetchParsed, FetchBroken, NotModified, Applied, CleanConf, OpenFile
<1>4. CASE AutoGet
  BY <1>4 DEF AutoGet, HttpGet, FetchParsed, FetchBroken, NotModified, Applied, CleanConf, OpenFile
<1>5. CASE MqttConnected
  BY <1>5 DEF MqttConnected
<1>6. CASE Save
  BY <1>6 DEF Save, OpenFile
<1>7. CASE SaveJson
  BY <1>7 DEF SaveJson
<1>8. CASE SaveEtag
  BY <1>8 DEF SaveEtag
<1>9. CASE PostConfig \/ PostStored
  BY <1>9 DEF PostConfig, PostStored
<1>10. CASE CanConfig
  BY <1>10 DEF CanConfig, OpenFile, CleanConf
<1>11. CASE SetFlags
  BY <1>11 DEF SetFlags
<1>12. CASE Clear \/ Crash
  BY <1>12 DEF Clear, Crash
<1>13. CASE Publish
  BY <1>13 DEF Publish, Versions
<1>14. CASE UNCHANGED vars
  BY <1>14 DEF vars
<1> QED
  BY <1>1, <1>2, <1>3, <1>4, <1>5, <1>6, <1>7, <1>8, <1>9, <1>10, <1>11, <1>12,
     <1>13, <1>14 DEF Next

\* Type correctness of the configuration store.
THEOREM TypeCorrect == Spec => []TypeOK
  BY TypeInit, TypeNext, PTL DEF Spec

-----------------------------------------------------------------------------
\* The invariant of the stored tag holds at first ...
LEMMA TagInit == Init => TagInv
  BY TypeInit, MaxVersionAssumption, SentinelAssumption
     DEF Init, TagInv, NothingAhead, TreeNotBehind, EtagNeverAhead, SavedTree, NoTag, Versions

\* ... and every step keeps it.
LEMMA TagNext == TagInv /\ [Next]_vars => TagInv'
<1> SUFFICES ASSUME TagInv, [Next]_vars PROVE TagInv'
  OBVIOUS
<1>0. TypeOK'
  BY TypeNext DEF TagInv
<1>n. /\ portal \in Nat /\ etag \in Nat /\ nvEtag \in Nat
      /\ root \in Versions => root \in Nat
      /\ nvConf \in Versions => nvConf \in Nat
  BY MaxVersionAssumption DEF TagInv, TypeOK, Versions, Tags, NoTag
<1> USE <1>0, <1>n, SentinelAssumption
    DEF TagInv, NothingAhead, TreeNotBehind, EtagNeverAhead, SavedTree, NoTag, env, ram, nv
<1>1. CASE Boot
  BY <1>1 DEF Boot, LoadStored, Applied, CleanConf
<1>2. CASE Load
  BY <1>2 DEF Load, LoadStored, Applied, CleanConf
<1>3. ASSUME HttpGet, pc = "idle" PROVE TagInv'
  BY <1>3 DEF HttpGet, FetchParsed, FetchBroken, NotModified, Applied, CleanConf, OpenFile
<1>4. CASE Get \/ AutoGet
  BY <1>3, <1>4 DEF Get, AutoGet
<1>5. CASE MqttConnected
  BY <1>5 DEF MqttConnected
<1>6. CASE Save
  BY <1>6 DEF Save, OpenFile
<1>7. CASE SaveJson
  BY <1>7 DEF SaveJson
<1>8. CASE SaveEtag
  BY <1>8 DEF SaveEtag
<1>9. CASE PostConfig \/ PostStored
  BY <1>9 DEF PostConfig, PostStored
<1>10. CASE CanConfig
  BY <1>10 DEF CanConfig, OpenFile, CleanConf
<1>11. CASE SetFlags
  BY <1>11 DEF SetFlags
<1>12. CASE Clear \/ Crash
  BY <1>12 DEF Clear, Crash
<1>13. CASE Publish
  BY <1>13 DEF Publish
<1>14. CASE UNCHANGED vars
  BY <1>14 DEF vars
<1> QED
  BY <1>1, <1>2, <1>4, <1>5, <1>6, <1>7, <1>8, <1>9, <1>10, <1>11, <1>12, <1>13,
     <1>14 DEF Next

\* Whatever the sources, the ETag in flash is never ahead of the file: a crash
\* between the two writes of a save cannot make an old file look new.
THEOREM EtagNeverAheadHolds == Spec => []EtagNeverAhead
<1>1. TagInv => EtagNeverAhead
  BY DEF TagInv
<1> QED
  BY <1>1, TagInit, TagNext, PTL DEF Spec

-----------------------------------------------------------------------------
\* A tag in memory goes with a tree, and stays with it.
LEMMA TagHasTreeNext ==
  ASSUME PortalOnly, TagInv, TagHasTree, [Next]_vars
  PROVE  TagHasTree'
<1>n. NoTag \notin Versions /\ "web" \notin users /\ "can" \notin users
  BY DEF Versions, NoTag, PortalOnly
<1> USE <1>n, SentinelAssumption
    DEF TagInv, TagHasTree, TypeOK, EtagNeverAhead, Configs, Tags, Steps, NoTag, env, ram, nv
<1>1. CASE Boot \/ Load
  BY <1>1 DEF Boot, Load, LoadStored, Applied, CleanConf
<1>2. CASE Get \/ AutoGet
  BY <1>2 DEF Get, AutoGet, HttpGet, FetchParsed, FetchBroken, NotModified, Applied, CleanConf, OpenFile
<1>3. CASE MqttConnected \/ Save
  BY <1>3 DEF MqttConnected, Save, OpenFile
<1>4. CASE SaveJson \/ SaveEtag
  BY <1>4 DEF SaveJson, SaveEtag
<1>5. CASE PostConfig \/ PostStored \/ CanConfig
  BY <1>5 DEF PostConfig, PostStored, CanConfig
<1>6. CASE SetFlags \/ Clear \/ Crash \/ Publish
  BY <1>6 DEF SetFlags, Clear, Crash, Publish
<1>7. CASE UNCHANGED vars
  BY <1>7 DEF vars
<1> QED
  BY <1>1, <1>2, <1>3, <1>4, <1>5, <1>6, <1>7 DEF Next

\* Nobody joins or leaves the installation.
LEMMA UsersFixed == [Next]_vars => users' = users
  BY DEF Next, vars, env, Boot, Load, Get, AutoGet, HttpGet, MqttConnected, Save, SaveJson,
     SaveEtag, PostConfig, PostStored, CanConfig, SetFlags, Clear, Crash, Publish

\* With the portal as the only source of configurations, 304 is sound: a
\* controller that presents the current ETag runs the current configuration.
THEOREM PortalTagIsSoundHolds == Spec => []PortalTagIsSound
<1> DEFINE Inv == TagInv /\ (PortalOnly => TagHasTree)
<1>1. Init => Inv
  BY TagInit, SentinelAssumption DEF Init, TagHasTree
<1>2. Inv /\ [Next]_vars => Inv'
  BY TagNext, TagHasTreeNext, UsersFixed DEF PortalOnly
<1>3. Inv => PortalTagIsSound
  BY MaxVersionAssumption DEF TagInv, PortalOnly, TagHasTree, TypeOK, NothingAhead,
     TreeNotBehind, PortalTagIsSound, NotModifiedIsSound, Versions, NoTag
<1> QED
  BY <1>1, <1>2, <1>3, PTL DEF Spec

-----------------------------------------------------------------------------
\* The web editor is the only user: once it has written, or is writing, the file,
\* the portal is off, and no save of another configuration is under way.
EditorOnly == users \subseteq {"web"}
EditGuarded ==
  /\ nvConf = Local \/ root = Local \/ pc = "post" => ~nvPortal
  /\ pc = "json" => root # Local
  /\ pc = "etag" => root = nvConf
  /\ pc \in {"json", "post"} => nvConf = Torn

\* Every step keeps the edit guarded.
LEMMA EditGuardedNext ==
  ASSUME EditorOnly, TypeOK, EditGuarded, [Next]_vars
  PROVE  EditGuarded' /\ (nvConf = Local => nvConf' = Local \/ pc' = "post")
<1>n. "cli" \notin users /\ "can" \notin users
  BY DEF EditorOnly
<1> USE <1>n, SentinelAssumption
    DEF EditGuarded, TypeOK, Configs, Steps, env, ram, nv
<1>1. CASE Boot \/ Load
  BY <1>1 DEF Boot, Load, LoadStored, Applied, CleanConf
<1>2. CASE Get \/ AutoGet
  BY <1>2 DEF Get, AutoGet, HttpGet, FetchParsed, FetchBroken, NotModified, Applied, CleanConf, OpenFile
<1>3. CASE MqttConnected \/ Save
  BY <1>3 DEF MqttConnected, Save
<1>4. CASE SaveJson \/ SaveEtag
  BY <1>4 DEF SaveJson, SaveEtag
<1>5. CASE PostConfig \/ PostStored \/ CanConfig
  BY <1>5 DEF PostConfig, PostStored, CanConfig
<1>6. CASE SetFlags \/ Clear \/ Crash \/ Publish
  BY <1>6 DEF SetFlags, Clear, Crash, Publish
<1>7. CASE UNCHANGED vars
  BY <1>7 DEF vars
<1> QED
  BY <1>1, <1>2, <1>3, <1>4, <1>5, <1>6, <1>7 DEF Next

\* A configuration uploaded by hand is not overwritten: neither the portal's
\* automatic fetch nor its autosave gets at the file again.
THEOREM LocalEditKeptHolds == Spec => LocalEditKept
<1> DEFINE Inv == TypeOK /\ (EditorOnly => EditGuarded)
<1>1. Init => Inv
  BY TypeInit, SentinelAssumption DEF Init, EditGuarded
<1>2. Inv /\ [Next]_vars => Inv'
  BY TypeNext, EditGuardedNext, UsersFixed DEF EditorOnly
<1>3. Inv /\ [Next]_vars =>
        [users \subseteq {"web"} /\ nvConf = Local => nvConf' = Local \/ pc' = "post"]_vars
  BY EditGuardedNext DEF EditorOnly
<1> QED
  BY <1>1, <1>2, <1>3, PTL DEF Spec, LocalEditKept
=============================================================================
