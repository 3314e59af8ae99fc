------------------------------ MODULE Installer ------------------------------
(****************************************************************************)
(* Installing a release into a private prefix (build_tools/install_sym.py   *)
(* and build_tools/release/make_manifest.py).  An installer admits a        *)
(* manifest, builds a new environment at its final path, validates it, and  *)
(* only then moves the links `previous` and `current`; one flock keeps     *)
(* other installers out.  Any step may raise, a signal may arrive just      *)
(* after a rename took effect, an installer may be killed, and the owner of *)
(* the prefix may roll back by hand as docs/installation.md describes.      *)
(****************************************************************************)
EXTENDS Naturals, FiniteSets

CONSTANTS
  Installers,
  Manifests,         \* what a release may publish
  Variants,
  NoLink, UserFile,  \* an entry of the prefix that is absent, or not ours
  Nobody,
  MaxEnvironments    \* bound on the environments ever built

ASSUME InstallerConstants ==
  /\ MaxEnvironments \in Nat
  /\ NoLink # UserFile /\ {NoLink, UserFile} \cap (1 .. MaxEnvironments) = {}
  /\ Nobody \notin Installers

VARIABLES
  links,         \* what PREFIX/current and PREFIX/previous point to
  environments,  \* the directories under PREFIX/envs
  made,          \* how many were ever made
  prefixLock,    \* who holds .install.lock
  job,           \* what each installer is doing
  disturbed      \* whether a kill, a signal or a manual rollback came between
                 \* the two renames

installVars == <<links, environments, made, prefixLock, job, disturbed>>

Ids == 1 .. MaxEnvironments

-----------------------------------------------------------------------------
(* Release admission.                                                       *)

validate_asset(asset, release) ==
  asset.url = [release |-> release, filename |-> asset.filename]

validate_manifest(m) ==
  /\ m.schema = 1
  /\ m.variants # <<>>
  /\ \A v \in DOMAIN m.variants :
       LET assets == m.variants[v].assets IN
       /\ m.variants[v].package = <<m.release, v>>
       /\ {"lock", "wheel"} \subseteq DOMAIN assets
       /\ \A a \in DOMAIN assets : validate_asset(assets[a], m.release)
       /\ assets["wheel"].filename = <<"wheel", m.release, v>>

select_variant(m, v) == validate_manifest(m) /\ v \in DOMAIN m.variants

\* A server may send more, fewer or other bytes than the asset's.
Deliveries(asset) ==
  [size : 1 .. asset.size + 1, digest : {asset.digest, <<"other">>}]

verify_assetSize(file, asset) == file.size = asset.size
verify_asset(file, asset) == file.size = asset.size /\ file.digest = asset.digest

\* What lands under the asset's name; the .partial file never survives.
download_asset(asset, file) == file.size <= asset.size /\ verify_asset(file, asset)

-----------------------------------------------------------------------------
Asset(i, a) == job[i].manifest.variants[job[i].variant].assets[a]

ReleaseIdentity(i) ==
  [release |-> job[i].manifest.release, variant |-> job[i].variant,
   revision |-> job[i].manifest.revision,
   assets |-> job[i].manifest.variants[job[i].variant].assets]

\* installation.json before it is written, and when its writing was cut short.
Unwritten == [file |-> "absent"]
Partial == [file |-> "partial"]

NoJob == [pc |-> "idle"]

InstallerInit ==
  /\ links \in [{"current", "previous"} -> {NoLink, UserFile}]
  /\ environments = [e \in {} |-> Unwritten] /\ made = 0
  /\ prefixLock = Nobody /\ job = [i \in Installers |-> NoJob]
  /\ disturbed = FALSE

Does(i, pc) == job[i].pc = pc /\ UNCHANGED disturbed
Goes(i, pc) == job' = [job EXCEPT ![i].pc = pc]

\* install() returns or raises: the descriptor of the lock is closed.
Ends(i) ==
  /\ job' = [job EXCEPT ![i] = NoJob]
  /\ prefixLock' = IF prefixLock = i THEN Nobody ELSE prefixLock

(* select_variant, validate_platform and prefix_lock: a refused release, a  *)
(* foreign platform or another installer ends the call before it touches    *)
(* the prefix.                                                              *)
Install(i, m, v, upgrade) ==
  /\ Does(i, "idle")
  /\ select_variant(m, v) /\ prefixLock = Nobody /\ prefixLock' = i
  /\ job' = [job EXCEPT ![i] = [pc |-> "inspect", manifest |-> m, variant |-> v,
               upgrade |-> upgrade, env |-> NoLink, previous |-> NoLink,
               rollback |-> NoLink]]
  /\ UNCHANGED <<links, environments, made>>

(* What doctor and demo, run from the environment, prove about it: it works *)
(* here and is the release and variant asked for.                           *)
Validates(i, e) ==
  environments[e].claims
    = [release |-> job[i].manifest.release, variant |-> job[i].variant,
       revision |-> job[i].manifest.revision]

managed_current == links["current"] \in {NoLink} \cup
                     {e \in DOMAIN environments : environments[e].record # Unwritten}

EmptyDirectory == [wheel |-> Unwritten, claims |-> Unwritten, validated |-> FALSE,
                   record |-> Unwritten]

(* The active release decides: none or another one (with --upgrade) gives a *)
(* new directory; the same one is validated again and kept.                 *)
Inspect(i) ==
  /\ Does(i, "inspect")
  /\ LET previous == links["current"]
         same == previous # NoLink /\ environments[previous].record = ReleaseIdentity(i)
     IN
     \/ /\ managed_current /\ ~same /\ (previous # NoLink => job[i].upgrade)
        /\ made < MaxEnvironments
        /\ made' = made + 1
        /\ environments' = [e \in DOMAIN environments \cup {made'} |->
             IF e = made' THEN EmptyDirectory ELSE environments[e]]
        /\ job' = [job EXCEPT ![i] = [@ EXCEPT !.pc = "build", !.env = made',
                                               !.previous = previous]]
        /\ UNCHANGED <<links, prefixLock>>
     \/ /\ managed_current => same \/ (previous # NoLink /\ ~job[i].upgrade)
        /\ Ends(i) /\ UNCHANGED <<links, environments, made>>

Target(i) == environments[job[i].env]

(* venv, the two downloads, uv pip sync and install: the environment now    *)
(* holds what was downloaded, whoever built it.                             *)
InstallEnvironment(i) ==
  /\ Does(i, "build")
  /\ \E lock \in Deliveries(Asset(i, "lock")), wheel \in Deliveries(Asset(i, "wheel")) :
       /\ download_asset(Asset(i, "lock"), lock) /\ download_asset(Asset(i, "wheel"), wheel)
       /\ environments' = [environments EXCEPT ![job[i].env] =
            [@ EXCEPT !.wheel = wheel.digest, !.claims = Asset(i, "wheel").claims]]
  /\ Goes(i, "validate") /\ UNCHANGED <<links, made, prefixLock>>

ValidateEnvironmentNot(i) ==
  /\ Does(i, "validate")
  /\ environments' = [environments EXCEPT ![job[i].env].validated = Validates(i, job[i].env)]
  /\ Goes(i, "record") /\ UNCHANGED <<links, made, prefixLock>>
ValidateEnvironment(i) ==
  /\ Does(i, "validate")
  /\ Validates(i, job[i].env)
  /\ environments' = [environments EXCEPT ![job[i].env].validated = TRUE]
  /\ Goes(i, "record") /\ UNCHANGED <<links, made, prefixLock>>

\* installation.json is written in place, so a kill may leave part of it.
WriteRecord(i) ==
  /\ Does(i, "record")
  /\ \/ /\ Target(i).record = Unwritten
        /\ environments' = [environments EXCEPT ![job[i].env].record = Partial]
        /\ UNCHANGED job
     \/ /\ Target(i).record = Partial
        /\ environments' = [environments EXCEPT ![job[i].env].record = ReleaseIdentity(i)]
        /\ Goes(i, "rollback link")
  /\ UNCHANGED <<links, made, prefixLock>>

\* replace_link: only a link of ours, or nothing, is replaced.
Replaceable(name) == links[name] # UserFile

LinkPrevious(i) ==
  /\ Does(i, "rollback link")
  /\ IF job[i].previous = NoLink THEN UNCHANGED links
     ELSE Replaceable("previous") /\ links' = [links EXCEPT !["previous"] = job[i].previous]
  /\ job' = [job EXCEPT ![i] = [@ EXCEPT !.pc = "current link",
       !.rollback = IF links["previous"] = UserFile THEN NoLink ELSE links["previous"]]]
  /\ UNCHANGED <<environments, made, prefixLock>>

LinkCurrent(i) ==
  /\ Does(i, "current link") /\ Replaceable("current")
  /\ links' = [links EXCEPT !["current"] = job[i].env]
  /\ Goes(i, "linked") /\ UNCHANGED <<environments, made, prefixLock>>

Activated(i) ==
  /\ Does(i, "linked") /\ Ends(i) /\ UNCHANGED <<links, environments, made>>

(* A step raises.  Before the candidate exists the call just ends; while    *)
(* `current` is replaced the other link is put back first.                  *)
Raise(i) ==
  /\ UNCHANGED <<links, environments, made, disturbed>>
  /\ \/ job[i].pc = "inspect" /\ Ends(i)
     \/ /\ job[i].pc \in {"build", "validate", "record", "rollback link"}
        /\ Goes(i, "cleanup") /\ UNCHANGED prefixLock
     \/ /\ job[i].pc = "current link"
        /\ Goes(i, "restore") /\ UNCHANGED prefixLock

(* A signal arrives just after a rename took effect: after that of          *)
(* `current` the handler still puts `previous` back; after that of          *)
(* `previous` the handler is not entered yet.                               *)
Interrupt(i) ==
  /\ \/ job[i].pc = "linked" /\ Goes(i, "restore") /\ UNCHANGED disturbed
     \/ job[i].pc = "current link" /\ Goes(i, "cleanup") /\ disturbed' = TRUE
  /\ UNCHANGED <<links, environments, made, prefixLock>>

RestoreNothing(i) ==
  /\ Does(i, "restore")
  /\ Goes(i, "cleanup") /\ UNCHANGED <<links, environments, made, prefixLock>>
Restore(i) ==
  /\ Does(i, "restore")
  /\ links' = IF job[i].previous = NoLink THEN links
              ELSE [links EXCEPT !["previous"] = job[i].rollback]
  /\ Goes(i, "cleanup") /\ UNCHANGED <<environments, made, prefixLock>>

Removed(env) == [e \in DOMAIN environments \ {env} |-> environments[e]]

\* Only this call's candidate is removed, and not if it became active.
CleanupAlways(i) ==
  /\ Does(i, "cleanup")
  /\ environments' = Removed(job[i].env)
  /\ Ends(i) /\ UNCHANGED <<links, made>>
Cleanup(i) ==
  /\ Does(i, "cleanup")
  /\ environments' = IF links["current"] = job[i].env THEN environments
                     ELSE Removed(job[i].env)
  /\ Ends(i) /\ UNCHANGED <<links, made>>

-----------------------------------------------------------------------------
(* The environment of the installer.                                        *)

\* The process dies; the kernel drops its lock and nothing is undone.
Kill(i) ==
  /\ job[i].pc # "idle" /\ Ends(i) /\ disturbed' = TRUE
  /\ UNCHANGED <<links, environments, made>>

\* "atomically replace `current` with a symlink to that recorded environment"
RollBackByHand ==
  /\ links["previous"] \in Ids
  /\ links' = [links EXCEPT !["current"] = links["previous"]]
  /\ disturbed' = TRUE
  /\ UNCHANGED <<environments, made, prefixLock, job>>

InstallerNext ==
  \/ \E i \in Installers :
       \/ \E m \in Manifests, v \in Variants, u \in BOOLEAN : Install(i, m, v, u)
       \/ Inspect(i) \/ InstallEnvironment(i) \/ ValidateEnvironment(i) \/ WriteRecord(i)
       \/ LinkPrevious(i) \/ LinkCurrent(i) \/ Activated(i)
       \/ Raise(i) \/ Interrupt(i) \/ Restore(i) \/ Cleanup(i) \/ Kill(i)
  \/ RollBackByHand

InstallerSpec == InstallerInit /\ [][InstallerNext]_installVars

-----------------------------------------------------------------------------
\* An environment that may be run: recorded whole, validated, and made of the
\* bytes that the admitted manifest of its release names.
Whole(e) ==
  /\ e \in DOMAIN environments
  /\ environments[e].validated
  /\ environments[e].record \notin {Unwritten, Partial}
  /\ LET record == environments[e].record IN
     /\ environments[e].wheel = record.assets["wheel"].digest
     /\ record.assets["wheel"].filename = <<"wheel", record.release, record.variant>>
     /\ environments[e].claims.revision = record.revision

(* "Failed validation leaves current unchanged", and the links never lead   *)
(* to a directory that is half built, half recorded, not validated or       *)
(* removed, whatever raises, whoever is killed between two steps and when   *)
(* ever the owner rolls back (install, activate_environment).  Unless the   *)
(* process died or was interrupted between the two renames, or the owner    *)
(* rolled back, `previous` is a second release to go back to, also after a  *)
(* failed upgrade.                                                          *)
ActiveReleaseWhole ==
  /\ \A name \in DOMAIN links : links[name] \in Ids => Whole(links[name])
  /\ ~disturbed /\ links["previous"] \in Ids /\ links["current"] \in Ids
       /\ (\A i \in Installers : job[i].pc \notin {"current link", "restore"})
     => links["previous"] # links["current"]
=============================================================================
