------------------------------ MODULE MCBackroom ------------------------------
(* Parts of the daemon and of its studio that share nothing; a behaviour is *)
(* one of one part.                                                         *)
EXTENDS Installs, LocalWorkers, Downloads, AudioJobs, Plates, Cockpit, TLC
CONSTANTS python, cv, lib, old, new, iso, late, aged, scr, kokoro, alias, qwen, pinned, loose, v1, v2,
    MCParts
VARIABLE part
MCMethod == (old :> "pip") @@ (new :> "pip") @@ (iso :> "isolated") @@ (late :> "isolated") @@ (aged :> "isolated") @@ (scr :> "script")
MCMain == (old :> cv) @@ (new :> lib) @@ (iso :> cv) @@ (late :> cv) @@ (aged :> cv) @@ (scr :> cv)
MCNeeds == (old :> (cv :> {1, 2} @@ lib :> {1})) @@ (new :> (lib :> {2})) @@ (iso :> <<>>) @@ (late :> <<>>) @@ (aged :> <<>>) @@ (scr :> <<>>)
MCMinVersion == (old :> 1) @@ (new :> 2) @@ (iso :> 1) @@ (late :> 0) @@ (aged :> 2) @@ (scr :> 0)
MCElsewhere == (old :> 0) @@ (new :> 0) @@ (iso :> 1) @@ (late :> 0) @@ (aged :> 1) @@ (scr :> 0)
MCSupports == {old, new, iso, aged, scr} \X {python}
MCOwn == [d \in Doors |-> python]
MCSize == (kokoro :> 1) @@ (alias :> 1) @@ (qwen :> 3)
MCBudgets == {2, Unlimited}
\* As in registry/models/flux.yaml: one pattern may match several shards.
MCPatterns == (pinned :> {{"a"}, {"b1", "b2"}}) @@ (loose :> {{"a"}, {"c"}})
MCPin == (pinned :> v1) @@ (loose :> Unpinned)
cockpitVars == <<statusVars, configVars, shellVars>>
vars == <<part, installVars, workerVars, downloadVars, audioVars, plateVars, cockpitVars>>
\* The other parts stay at rest, in one of their initial states.
AtRest ==
    /\ (part # "installs" => env = [x \in Pythons |-> [p \in Packages |-> 0]] /\ pip = {})
    /\ (part # "workers" => budget = Unlimited)
    /\ (part # "downloads" => head = v1)
    /\ (part # "config" => file = Malformed)
Init ==
    /\ part \in MCParts
    /\ InstallsInit /\ LocalWorkersInit /\ DownloadsInit /\ AudioInit /\ PlatesInit
    /\ StatusInit /\ ConfigInit /\ ShellInit
    /\ AtRest
Next ==
    /\ UNCHANGED part
    /\ \/ part = "installs" /\ InstallsNext /\ UNCHANGED <<workerVars, downloadVars, audioVars, plateVars, cockpitVars>>
       \/ part = "workers" /\ LocalWorkersNext /\ UNCHANGED <<installVars, downloadVars, audioVars, plateVars, cockpitVars>>
       \/ part = "downloads" /\ DownloadsNext /\ UNCHANGED <<installVars, workerVars, audioVars, plateVars, cockpitVars>>
       \/ part = "audio" /\ AudioNext /\ UNCHANGED <<installVars, workerVars, downloadVars, plateVars, cockpitVars>>
       \/ part = "plates" /\ PlatesNext /\ UNCHANGED <<installVars, workerVars, downloadVars, audioVars, cockpitVars>>
       \/ /\ UNCHANGED <<installVars, workerVars, downloadVars, audioVars, plateVars>>
          /\ \/ part = "status" /\ StatusNext /\ UNCHANGED <<configVars, shellVars>>
             \/ part = "config" /\ ConfigNext /\ UNCHANGED <<statusVars, shellVars>>
             \/ part = "shell" /\ ShellNext /\ UNCHANGED <<statusVars, configVars>>
Spec == Init /\ [][Next]_vars
=============================================================================
