------------------------------ MODULE MCMeasured ------------------------------
(***************************************************************************)
(* What measured numbers and calls rest on, one part of it at work: a sweep*)
(* of four cells that may name anything as its subject; flights of four    *)
(* variants, two of them of one model file, over three runtimes; two one-  *)
(* shot runs, on a machine that may be too small, through every door; the  *)
(* probe of a few hundred machines; or two claims before two verifiers.    *)
(***************************************************************************)
EXTENDS Sweep, Flights, OneShot, Claims, TLC

CONSTANTS v1, m1, cut, new, rev, moved, a1, a2, b, c, fa, fb, fc, pip, cmake,
          i1, i2, t1, t2, s1, w1, e1, r1, r2, AtWork

VARIABLE work
measuredVars == <<work, sweepVars, flightVars, oneShotVars, probeVars, claimsVars>>

MCModelOf == [v \in {v1, i1, i2, t1, t2, s1, w1, e1} |-> m1]
MCPin == [v \in DOMAIN MCModelOf |-> rev]
MCQuantisations == <<"absent", "8">>
MCSteps == <<4, 8>>
MCPlan == <<a1, b, a2, c>>
MCModelFile == (a1 :> fa) @@ (a2 :> fa) @@ (b :> fb) @@ (c :> fc)
MCRuntimeOf == (a1 :> cmake) @@ (a2 :> pip) @@ (b :> pip) @@ (c :> NoRuntime)

\* Two image variants compete; of the text variants t2 has no wired runtime.
MCWorkload == (i1 :> "image") @@ (i2 :> "image") @@ (t1 :> "text") @@ (t2 :> "text")
              @@ (s1 :> "speech") @@ (w1 :> "transcribe") @@ (e1 :> "embedding")
MCNeed == (i1 :> 4) @@ (i2 :> 9) @@ (t1 :> 4) @@ (t2 :> 4)
          @@ (s1 :> 1) @@ (w1 :> 1) @@ (e1 :> 1)

\* Macs: Apple's and Intel's, their tools silent at times; PCs with cards of two makers.
Card(vendor, listed, vram) == [vendor |-> vendor, listed |-> listed, vram |-> vram]
Machine(os, arm, meminfo, memory, displays, torch, nvidia, cards, rocm) ==
    [os |-> os, arm |-> arm, meminfo |-> meminfo, memory |-> memory, displays |-> displays,
     displayVram |-> 4, torch |-> torch, metalLimit |-> 10, nvidia |-> nvidia, nvidiaVram |-> 24,
     cards |-> cards, lspci |-> TRUE, rocm |-> rocm, vulkan |-> rocm = "none",
     dmi |-> TRUE, cpuinfo |-> meminfo, disk |-> TRUE]
Mac(memory, displays, torch) == Machine("darwin", TRUE, TRUE, memory, displays, torch, "absent", <<>>, "none")
MCCards == {Card("AMD", TRUE, 8), Card("AMD", FALSE, Unmeasured), Card("Intel", TRUE, Unmeasured),
            Card("none", TRUE, Unmeasured), Card("AMD", TRUE, 0), Card("AMD", TRUE, 2)}
MCSources ==
    {Machine("darwin", a, m, 8, d, t, "absent", <<>>, "none") :
        a, m, t \in BOOLEAN, d \in {"none", "named", "sized", "nameless"}}
    \cup {Machine("linux", FALSE, r = "smi", 16, "none", FALSE, n, cards, r) :
        n \in {"absent", "unparsed", "ok"}, r \in {"none", "smi", "info"},
        cards \in {<<>>} \cup {<<x>> : x \in MCCards} \cup {<<x, y>> : x, y \in MCCards}}
    \cup {Machine("windows", FALSE, FALSE, 16, "none", FALSE, n, <<>>, "none") : n \in {"absent", "ok"}}
MCPools == [proxy |-> <<"one", "two">>, direct |-> <<"one", "two", "three">>, free |-> <<"one">>]
MCProfiles == {ProbeLocalDevice(s) :
    s \in {Mac(16, "named", TRUE), Mac(8, "named", FALSE), Mac(2, "named", FALSE), Mac(16, "none", TRUE)}}

\* The second run: one of the same process, or a reader of the records beside the command line.
Beside(door) == IF door \in CommandLine THEN "dry_run"
                ELSE IF door = "daemon" THEN "daemon" ELSE "stream"

Init ==
    /\ work \in AtWork /\ SweepInit /\ FlightInit /\ OneShotInit /\ ProbeInit /\ ClaimsInit
    /\ work # "sweep" => subject = v1
    /\ work # "flights" => installed = {} /\ ~dry
    /\ work # "one_shot" =>
          /\ rows = {} /\ cache.at = [v \in DOMAIN Workload |-> NoWeights]
          /\ runs = [r \in Requests |-> Asked("image", "none")]
    /\ \A v, w \in DOMAIN Workload : cache.at[v] = cache.at[w]
    /\ runs[r1].door # "image" => rows = {}
    /\ work = "one_shot" => runs[r2] = Asked(Beside(runs[r1].door), "none")

\* The weights that one of the two runs could choose; others would move unseen.
Seen(v) ==
    \E r \in Requests :
        LET kind == KindOf[runs[r].door]
        IN  Workload[v] = kind \/ (kind = "text" /\ v \in Served)

Next ==
    /\ UNCHANGED work
    /\ \/ work = "sweep" /\ SweepNext /\ UNCHANGED <<flightVars, oneShotVars, probeVars, claimsVars>>
       \/ work = "flights" /\ FlightNext /\ UNCHANGED <<sweepVars, oneShotVars, probeVars, claimsVars>>
       \/ /\ work = "one_shot" /\ OneShotNext /\ UNCHANGED <<sweepVars, flightVars, probeVars, claimsVars>>
          /\ \A v \in DOMAIN Workload : cache'.at[v] # cache.at[v] => Seen(v)
       \/ work = "probe" /\ ProbeAgain /\ UNCHANGED <<sweepVars, flightVars, oneShotVars, claimsVars>>
       \/ work = "claims" /\ ClaimsNext
          /\ UNCHANGED <<sweepVars, flightVars, oneShotVars, probeVars>>

Spec == Init /\ [][Next]_measuredVars
=============================================================================
