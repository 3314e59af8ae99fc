------------------------------ MODULE MCStorage ------------------------------
(****************************************************************************)
(* What the project keeps on disk between runs: the directory of compiled   *)
(* artifacts and the prefix of installed releases.  They share no state, so *)
(* a behaviour exercises one of them.  Release 2 is published three times:  *)
(* as it should be, under the URL of another release, and with a wheel that *)
(* was built from another revision.                                         *)
(* Two threads of one process and one of another share a directory with     *)
(* room for two small files; the larger recipe fills it alone and the old   *)
(* exporter rejects it.                                                     *)
(****************************************************************************)
EXTENDS CompiledArtifacts, Installer, TLC

CONSTANTS t1, t2, u1, p, q, ra, rb, i1, i2

MCProcOf == t1 :> p @@ t2 :> p @@ u1 :> q
MCSize == ra :> 1 @@ rb :> 2
MCUnsupported == {<<rb, 1>>}

MCAsset(kind, release, from, built) ==
  LET name == <<kind, release, "cpu">>
  IN  [filename |-> name, url |-> [release |-> from, filename |-> name],
       size |-> 2, digest |-> name,
       claims |-> [release |-> release, variant |-> "cpu", revision |-> built]]
MCRelease(release, from, built) ==
  [schema |-> 1, release |-> release, revision |-> release,
   variants |-> "cpu" :>
     [package |-> <<release, "cpu">>,
      assets |-> [kind \in {"lock", "wheel"} |-> MCAsset(kind, release, from, built)]]]
MCManifests == {MCRelease(1, 1, 1), MCRelease(2, 2, 2), MCRelease(2, 1, 2), MCRelease(2, 2, 1)}

VARIABLE stored
storageVars == <<stored, vars, installVars>>

\* A step of one part leaves the other alone.
Artifacts(step) == stored = "artifacts" /\ step /\ UNCHANGED <<stored, installVars>>
Releases(step) == stored = "releases" /\ step /\ UNCHANGED <<stored, vars>>

StorageInit ==
  /\ stored \in {"artifacts", "releases"}
  /\ Init /\ InstallerInit
  /\ stored = "releases" => withStore = {}
  /\ stored = "artifacts" => links["current"] = NoLink /\ links["previous"] = NoLink

StorageNext == Artifacts(Next) \/ Releases(InstallerNext)

StorageSpec ==
  /\ StorageInit /\ [][StorageNext]_storageVars
  /\ \A t \in Threads : WF_storageVars(Artifacts(Step(t)))
=============================================================================
