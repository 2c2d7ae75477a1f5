----------------------------- MODULE ConfigStore -----------------------------
(***************************************************************************)
(* The life of the JSON configuration of one controller: the tree that     *)
(* runs in RAM (root), the copy in non-volatile memory, and the ETag that   *)
(* tells the portal which version the controller already has.              *)
(*                                                                         *)
(* The configuration reaches RAM by loadConfigFromHttp, loadConfigFromEEPROM *)
(* or over CAN, and reaches flash by cmdFunctionSave or by a POST of        *)
(* /config.json through the web interface.  A save is two writes, the JSON  *)
(* and then the ETag, and the power may fail around each of them.           *)
(***************************************************************************)
EXTENDS Integers

CONSTANTS
  MaxVersion,   \* bound: the portal publishes versions 1 .. MaxVersion
  Installations, \* the installations considered, each the set of its users
  NoConfig,     \* no configuration: root is NULL, the file is empty
  Local,        \* a configuration the portal never published: written by
                \* POST /config.json, or received over CAN from a neighbour
  Torn          \* the file a power failure during a save leaves behind

ASSUME MaxVersionAssumption == MaxVersion \in Nat \ {0}

\* Who else works on the configuration: an operator who types commands, somebody
\* who uses the web editor, a neighbour on the CAN bus.
AllUsers == {"cli", "web", "can"}

ASSUME InstallationsAssumption == Installations \subseteq SUBSET AllUsers

Versions == 1 .. MaxVersion

ASSUME SentinelAssumption ==
  /\ NoConfig \notin Versions /\ Local \notin Versions /\ Torn \notin Versions
  /\ NoConfig # Local /\ NoConfig # Torn /\ Local # Torn

NoTag == 0      \* the empty ETag; a version's ETag is its number

VARIABLES
  users,        \* which of AllUsers this installation has; never changes
  portal,       \* version the configuration server hands out
  root,         \* configuration parsed into RAM
  configLoaded, \* configLoaded: items and inputs have been set up from root
  etag,         \* systemConfig::currentConfigETAG
  configOk,     \* configOk: MQTT was reached with this configuration
  nvConf,       \* contents of /config.json in flash
  nvEtag,       \* systemConfigData.ETAG in flash
  nvPortal,     \* flag !notGetConfigFromHTTP in flash
  nvAutosave,   \* flag !notSaveSuccedConfig in flash
  pc            \* where the main program is: idle, in a save, or off

ram  == <<root, configLoaded, etag, configOk>>
nv   == <<nvConf, nvEtag, nvPortal, nvAutosave>>
env  == <<users, portal>>
vars == <<users, portal, root, configLoaded, etag, configOk,
          nvConf, nvEtag, nvPortal, nvAutosave, pc>>

Configs == Versions \cup {NoConfig, Local}
Tags    == Versions \cup {NoTag}
\* "idle": between operations.  "json": cmdFunctionSave has opened the file.
\* "etag": the JSON is closed, saveETAG not yet done.  "post": the web library
\* is storing an uploaded file.  "off": no power.
Steps   == {"idle", "json", "etag", "post", "off"}

TypeOK ==
  /\ users \in Installations
  /\ portal \in Versions
  /\ root \in Configs
  /\ configLoaded \in BOOLEAN
  /\ etag \in Tags
  /\ configOk \in BOOLEAN
  /\ nvConf \in Configs \cup {Torn}
  /\ nvEtag \in Tags
  /\ nvPortal \in BOOLEAN
  /\ nvAutosave \in BOOLEAN
  /\ pc \in Steps

\* A controller whose flash has just been cleared, before its first boot.
Init ==
  /\ users \in Installations
  /\ portal = 1
  /\ root = NoConfig /\ configLoaded = FALSE /\ etag = NoTag /\ configOk = FALSE
  /\ nvConf = NoConfig /\ nvEtag = NoTag /\ nvPortal = TRUE /\ nvAutosave = TRUE
  /\ pc = "off"

-----------------------------------------------------------------------------
\* RAM after cleanConf: the tree is deleted and nothing is loaded.
CleanConf ==
  /\ root' = NoConfig /\ configLoaded' = FALSE /\ configOk' = FALSE

\* RAM after cleanConf, a successful parse and applyConfig.
Applied(cfg) ==
  /\ root' = cfg /\ configLoaded' = TRUE /\ configOk' = FALSE

\* Mutant of LoadStored: a file that does not parse keeps the stored ETag.
LoadStoredKeepsTag ==
  \/ /\ nvConf \notin {NoConfig, Torn} /\ Applied(nvConf)
     /\ etag' = nvEtag /\ UNCHANGED nv
  \/ nvConf = Torn /\ CleanConf /\ etag' = nvEtag /\ UNCHANGED nv
  \/ nvConf = NoConfig /\ UNCHANGED <<ram, nv>>

\* loadConfigFromEEPROM: parse the stored file.  A torn file may not parse, may
\* be garbage (then it is truncated and the stored ETag erased) or empty; the
\* last two leave the running tree as it is.
LoadStored ==
  \/ /\ nvConf \notin {NoConfig, Torn}
     /\ Applied(nvConf)
     /\ etag' = nvEtag
     /\ UNCHANGED nv
  \/ /\ nvConf = Torn
     /\ CleanConf
     /\ etag' = NoTag
     /\ UNCHANGED nv
  \/ /\ nvConf = Torn
     /\ nvConf' = NoConfig /\ etag' = NoTag /\ nvEtag' = NoTag
     /\ UNCHANGED <<root, configLoaded, configOk, nvPortal, nvAutosave>>
  \/ /\ nvConf \in {NoConfig, Torn}
     /\ UNCHANGED <<ram, nv>>

\* setup_main after power is back: RAM starts empty and the stored
\* configuration is loaded.
Boot ==
  /\ pc = "off"
  /\ pc' = "idle"
  /\ LoadStored
  /\ UNCHANGED env

\* READ_RE_CONFIG: the operator typed `load`, or a fetch left nothing running.
Load ==
  /\ pc = "idle"
  /\ "cli" \in users \/ ~configLoaded
  /\ LoadStored
  /\ UNCHANGED <<env, pc>>

\* cmdFunctionSave opens /config.json for writing: the old text is gone.
OpenFile == pc' = "json" /\ nvConf' = Torn

\* Mutant of FetchParsed: the ETag goes to flash as soon as it is received.
FetchParsedTagStored ==
  /\ etag # portal
  /\ Applied(portal) /\ etag' = portal /\ nvEtag' = portal
  /\ IF nvAutosave THEN OpenFile ELSE UNCHANGED <<pc, nvConf>>
  /\ UNCHANGED <<nvPortal, nvAutosave>>

\* loadConfigFromHttp, status 200 and a body that parses: the tree is replaced
\* and applied, the ETag is the one of the answer, autosave begins.
FetchParsed ==
  /\ etag # portal
  /\ Applied(portal)
  /\ etag' = portal
  /\ IF nvAutosave THEN OpenFile ELSE UNCHANGED <<pc, nvConf>>
  /\ UNCHANGED <<nvEtag, nvPortal, nvAutosave>>

\* Mutant of FetchBroken: the ETag of the broken answer is kept.
FetchBrokenKeepsTag ==
  etag # portal /\ CleanConf /\ etag' = portal /\ UNCHANGED <<nv, pc>>

\* loadConfigFromHttp, status 200 and a body that does not parse: the old tree
\* is gone and no ETag is claimed.
FetchBroken ==
  /\ etag # portal
  /\ CleanConf
  /\ etag' = NoTag
  /\ UNCHANGED <<nv, pc>>

\* loadConfigFromHttp with 304: the portal answers that the configuration with
\* our ETag is current, the running one is kept.
NotModified ==
  /\ etag = portal
  /\ UNCHANGED <<ram, nv, pc>>

\* The exchange of loadConfigFromHttp; no answer at all changes nothing.
HttpGet == (FetchParsed \/ FetchBroken \/ NotModified) /\ UNCHANGED env

\* `get` on the CLI (state GET): fetch whatever the autoload flag says; when
\* that leaves nothing running, the next state reads flash (action Load).
Get ==
  /\ "cli" \in users
  /\ pc = "idle"
  /\ HttpGet

\* LIBS_INITIALIZED: automatic fetch at (re)start of the network, when it is
\* enabled and this configuration has not brought us to the broker yet.
AutoGet ==
  /\ pc = "idle"
  /\ nvPortal /\ ~configOk
  /\ HttpGet

\* ip_ready_config_loaded_connecting_to_broker succeeded.
MqttConnected ==
  /\ pc = "idle" /\ configLoaded /\ ~configOk
  /\ configOk' = TRUE
  /\ UNCHANGED <<env, root, configLoaded, etag, nv, pc>>

\* `save` on the CLI.
Save ==
  /\ "cli" \in users
  /\ pc = "idle"
  /\ OpenFile
  /\ UNCHANGED <<env, ram, nvEtag, nvPortal, nvAutosave>>

\* ... the whole tree is printed and the file closed ...
SaveJson ==
  /\ pc = "json"
  /\ pc' = "etag"
  /\ nvConf' = root
  /\ UNCHANGED <<env, ram, nvEtag, nvPortal, nvAutosave>>

\* Mutant of SaveEtag: the tag is made up from the tree, whatever its origin.
SaveEtagWrongField ==
  /\ pc = "etag" /\ pc' = "idle"
  /\ nvEtag' = root /\ configLoaded' = (root # NoConfig)
  /\ UNCHANGED <<env, root, etag, configOk, nvConf, nvPortal, nvAutosave>>

\* ... and the ETag is stored last.  A configuration that came over CAN is
\* applied only now.
SaveEtag ==
  /\ pc = "etag"
  /\ pc' = "idle"
  /\ nvEtag' = etag
  /\ configLoaded' = (root # NoConfig)
  /\ UNCHANGED <<env, root, etag, configOk, nvConf, nvPortal, nvAutosave>>

\* Mutant of PostConfig: the portal stays enabled.
PostConfigPortalOn ==
  /\ "web" \in users /\ pc = "idle"
  /\ pc' = "post" /\ etag' = NoTag /\ nvConf' = Torn
  /\ UNCHANGED <<env, root, configLoaded, configOk, nvEtag, nvPortal, nvAutosave>>

\* POST /config.json: httpHandler switches the portal off and forgets the ETag
\* in RAM only, and the web library opens the file for the body.  What runs is
\* unchanged.
PostConfig ==
  /\ "web" \in users
  /\ pc = "idle"
  /\ pc' = "post"
  /\ nvPortal' = FALSE
  /\ etag' = NoTag
  /\ nvConf' = Torn
  /\ UNCHANGED <<env, root, configLoaded, configOk, nvEtag, nvAutosave>>

\* The web library has stored the whole body.
PostStored ==
  /\ pc = "post"
  /\ pc' = "idle"
  /\ nvConf' = Local
  /\ UNCHANGED <<env, ram, nvEtag, nvPortal, nvAutosave>>

\* canDriver::Poll in state ReadConfig: the neighbour's configuration replaces
\* the tree and is saved at once, beside whatever ETag is in RAM; a broken one
\* leaves nothing.
CanConfig ==
  /\ "can" \in users
  /\ pc = "idle"
  /\ \/ /\ root' = Local /\ configLoaded' = FALSE /\ configOk' = FALSE
        /\ OpenFile
        /\ UNCHANGED etag
     \/ /\ CleanConf
        /\ etag' = NoTag
        /\ UNCHANGED <<pc, nvConf>>
  /\ UNCHANGED <<env, nvEtag, nvPortal, nvAutosave>>

\* `get ON|OFF` and `save ON|OFF`.
SetFlags ==
  /\ "cli" \in users
  /\ pc = "idle"
  /\ \/ \E on \in BOOLEAN : nvPortal' = on /\ UNCHANGED nvAutosave
     \/ \E on \in BOOLEAN : nvAutosave' = on /\ UNCHANGED nvPortal
  /\ UNCHANGED <<env, ram, nvConf, nvEtag, pc>>

\* `clear`: the system block is zeroed (so both flags read as enabled), the
\* JSON is truncated; the running configuration goes on.
Clear ==
  /\ "cli" \in users
  /\ pc = "idle"
  /\ nvConf' = NoConfig /\ nvEtag' = NoTag /\ nvPortal' = TRUE /\ nvAutosave' = TRUE
  /\ etag' = NoTag
  /\ UNCHANGED <<env, root, configLoaded, configOk, pc>>

\* Power failure or reboot at any moment, also inside a save.
Crash ==
  /\ pc # "off"
  /\ pc' = "off"
  /\ root' = NoConfig /\ configLoaded' = FALSE /\ etag' = NoTag /\ configOk' = FALSE
  /\ UNCHANGED <<env, nv>>

\* Somebody edits the configuration on the portal: a new version, a new ETag.
Publish ==
  /\ portal < MaxVersion
  /\ portal' = portal + 1
  /\ UNCHANGED <<users, ram, nv, pc>>

Next ==
  \/ Boot \/ Load \/ Get \/ AutoGet \/ MqttConnected
  \/ Save \/ SaveJson \/ SaveEtag
  \/ PostConfig \/ PostStored \/ CanConfig
  \/ SetFlags \/ Clear \/ Crash \/ Publish

Spec == Init /\ [][Next]_vars

\* The main loop goes on: it boots, finishes the save it began, and the LAN
\* state machine comes back to LIBS_INITIALIZED as long as it has no
\* configuration; a portal that is asked again and again answers in the end
\* with a body that parses (the network is not down for ever).
FairSpec ==
  /\ Spec
  /\ WF_vars(Boot) /\ WF_vars(SaveJson) /\ WF_vars(SaveEtag)
  /\ SF_vars(AutoGet /\ configLoaded')

-----------------------------------------------------------------------------
(***************************************************************************)
(* Properties                                                              *)
(***************************************************************************)

\* When the portal would answer 304 ("Config not changed") the configuration
\* that runs is the portal's current one, whoever else works on it.
NotModifiedIsSound ==
  pc # "off" /\ etag = portal => root = portal

\* The same where the portal is the only source of configurations: a save
\* interrupted between its two writes leaves a new file beside an old ETag, and
\* that must never look current.
PortalTagIsSound ==
  users \subseteq {"cli"} => NotModifiedIsSound

\* The stored file is never older than the ETag stored beside it: the ETag is
\* written last, and only with its file, so that no power failure and no
\* switched off autosave can make an old file look like the new version.
EtagNeverAhead ==
  nvEtag # NoTag /\ nvConf \in Versions => nvEtag <= nvConf

\* A file written by the web editor survives power failures, network restarts
\* and new versions on the portal, because the editor has switched the portal
\* off: only the editor itself opens the file again (nobody types commands and
\* no neighbour sends a configuration).
LocalEditKept ==
  [][users \subseteq {"web"} /\ nvConf = Local => nvConf' = Local \/ pc' = "post"]_vars

\* A power failure in the middle of a save, or a broken download, does not
\* leave an unattended controller without a configuration for ever: once the
\* power stays on, the portal's copy is fetched again.
ConfigRecovered ==
  users = {} /\ <>[](pc # "off") => []<>configLoaded

=============================================================================
