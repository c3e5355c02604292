-------------------------------- MODULE Probe --------------------------------
(***************************************************************************)
(* The hardware probe (spacepilot/device_probe.py): a machine answers, or  *)
(* not, each of the tools and files that are asked, each under a timeout,  *)
(* and a profile is put together from the answers, anew for every plan.    *)
(* What was not read is Unmeasured and named among the unknown; 0 is what  *)
(* the reserve leaves of too little.                                       *)
(***************************************************************************)
EXTENDS Naturals, Sequences, FiniteSets

CONSTANTS
    Sources,   \* machines, each with what its tools and files answer this time
    Floor,     \* the least memory that is kept free
    MinUsable, \* the working set of the lightest local video recipe
    Unmeasured

ASSUME ProbeAssumption == {Floor, MinUsable} \subseteq Nat /\ Unmeasured \notin Nat

\* Only amdgpu exports a card's memory, beside the PCI ids that the kernel gives every card.
ASSUME SourcesAssumption ==
    \A s \in Sources :
        /\ s.cards \in Seq([vendor : STRING, listed : BOOLEAN, vram : Nat \cup {Unmeasured}])
        /\ \A i \in DOMAIN s.cards : s.cards[i].vram # Unmeasured => s.cards[i].vendor # "none"

VARIABLE profile
probeVars == <<profile>>

\* A card is a sequence, <<>> is none.
Blank ==
    [backend |-> "none", gpu |-> <<>>, vram |-> Unmeasured, vramOf |-> <<>>,
     memory |-> Unmeasured, unified |-> FALSE, limit |-> 0, source |-> "none",
     runtime |-> "none", unknown |-> {}]
Lacks(p, fields) == [p EXCEPT !.unknown = @ \cup fields]

\* Weights fit in a card's memory, or in that of a unified machine; never in plain RAM.
AcceleratorMemory(p) ==
    IF p.vram \notin {Unmeasured, 0} THEN p.vram
    ELSE IF p.unified THEN p.memory ELSE Unmeasured

\* The platform's own limit, or a tenth of the memory and at least Floor kept free.
Usable(p) ==
    LET capacity == AcceleratorMemory(p)
        reserve == IF capacity \div 10 > Floor THEN capacity \div 10 ELSE Floor
    IN  IF p.limit # 0 THEN p.limit
        ELSE IF capacity = Unmeasured THEN Unmeasured
        ELSE IF capacity > reserve THEN capacity - reserve ELSE 0

IsLocalCapable(p) ==
    /\ p.backend \in {"metal", "cuda", "rocm"}
    /\ Usable(p) # Unmeasured /\ Usable(p) >= MinUsable
ProfileStatus(p) ==
    IF p.unknown # {} THEN "partial" ELSE IF IsLocalCapable(p) THEN "optimal" ELSE "constrained"

ProbeDisk(p, s) == IF s.disk THEN p ELSE Lacks(p, {"disk"})

\* nvidia-smi: the first card's name is kept although its memory does not parse.
ProbeNvidia(p, s) ==
    CASE s.nvidia = "absent"   -> p
      [] s.nvidia = "unparsed" -> Lacks([p EXCEPT !.gpu = <<"nvidia">>], {"nvidia_smi"})
      [] OTHER -> [p EXCEPT !.gpu = <<"nvidia">>, !.vram = s.nvidiaVram, !.vramOf = <<"nvidia">>,
                            !.backend = "cuda", !.runtime = "cuda"]

\* macOS: a GPU that system_profiler names means Metal, a size without a name does not.
\* Only torch knows Metal's limit.
ProbeDarwin(p, s) ==
    LET named == s.displays \in {"named", "sized"}
        sized == s.displays \in {"sized", "nameless"} /\ ~s.arm
        limited == named /\ s.torch
        read == [p EXCEPT !.unified = s.arm,
                          !.memory = IF s.meminfo THEN s.memory ELSE Unmeasured,
                          !.gpu = IF named THEN <<"display">> ELSE <<>>,
                          !.vram = IF sized THEN s.displayVram ELSE Unmeasured,
                          !.vramOf = IF sized THEN <<"display">> ELSE <<>>,
                          !.backend = IF named THEN "metal" ELSE "cpu",
                          !.limit = IF limited THEN s.metalLimit ELSE 0,
                          !.source = IF limited THEN "metal" ELSE "none"]
    IN  Lacks(read, (IF s.meminfo THEN {} ELSE {"memory_total_bytes"})
                    \cup (IF s.displays = "none" THEN {"gpu"} ELSE {})
                    \cup (IF s.arm \/ sized THEN {} ELSE {"vram_total_bytes"}))

\* A DRM card: its PCI ids may be unreadable, only amdgpu exports its memory, and a name is
\* lspci's or made of the ids.
CardGpu(s, i) == IF s.cards[i].vendor = "none" THEN <<>> ELSE <<"card", i>>
Listed(s, i) == s.lspci /\ s.cards[i].vendor # "none" /\ s.cards[i].listed
Sized(s) == {i \in DOMAIN s.cards : s.cards[i].vram \notin {Unmeasured, 0}}

DetectLinuxGpus(p, s) ==
    IF s.cards = <<>> THEN Lacks(p, {"gpu"})
    ELSE Lacks(p, (IF \A i \in DOMAIN s.cards : Listed(s, i) THEN {} ELSE {"gpu_name"})
                  \cup (IF \A i \in DOMAIN s.cards : s.cards[i].vram # Unmeasured THEN {} ELSE {"vram"}))

\* The card with the most memory gives the memory and the name, or keeps the name of before.
\* (mutant) a name that is there already stays
NameFirst(name, before) == IF before # <<>> THEN before ELSE name
NameOr(name, before) == IF name # <<>> THEN name ELSE before
LargestCard(p, s) ==
    IF Sized(s) # {}
    THEN LET best == CHOOSE i \in Sized(s) : \A j \in Sized(s) :
                        \/ s.cards[i].vram > s.cards[j].vram
                        \/ s.cards[i].vram = s.cards[j].vram /\ i <= j
         IN  [p EXCEPT !.vram = s.cards[best].vram, !.vramOf = <<"card", best>>,
                       !.gpu = NameOr(CardGpu(s, best), @)]
    ELSE LET named == {i \in DOMAIN s.cards : CardGpu(s, i) # <<>>}
         IN  Lacks([p EXCEPT !.gpu = IF named = {} THEN @
                                     ELSE <<"card", CHOOSE i \in named : \A j \in named : i <= j>>],
                   {"vram_total_bytes"})

\* Vulkan is named as a way to the card, and no backend.
VulkanCompute(p, s) ==
    IF s.vulkan THEN Lacks([p EXCEPT !.runtime = "vulkan"], {"compute_runtime"}) ELSE p

\* An AMD card is reachable when rocm-smi or rocminfo answers.
LinuxComputeRuntime(p, s) ==
    IF ~\E i \in DOMAIN s.cards : s.cards[i].vendor = "AMD" THEN VulkanCompute(p, s)
    ELSE IF s.rocm # "none"
    THEN Lacks([p EXCEPT !.backend = "rocm", !.runtime = "rocm"],
               IF s.rocm = "smi" /\ p.vram = Unmeasured THEN {"vram_total_bytes"} ELSE {})
    ELSE Lacks(VulkanCompute(p, s), {"compute_runtime"})

LinuxMachineName(p, s) == IF s.dmi THEN p ELSE Lacks(p, {"machine_name"})
LinuxCpuCores(p, s) == IF s.cpuinfo THEN p ELSE Lacks(p, {"cpu_cores_physical", "chip"})

ProbeLinux(p, s) ==
    LET read == IF s.meminfo THEN [p EXCEPT !.memory = s.memory] ELSE Lacks(p, {"memory_total_bytes"})
        nvidia == ProbeNvidia(LinuxMachineName(LinuxCpuCores(read, s), s), s)
        cards == LargestCard(DetectLinuxGpus([nvidia EXCEPT !.backend = "cpu"], s), s)
        reached == LinuxComputeRuntime(cards, s)
    IN  IF nvidia.backend = "cuda" THEN nvidia
        ELSE IF reached.backend = "cpu" /\ s.cards # <<>> THEN Lacks(reached, {"compute_runtime"})
        ELSE reached

ProbeOther(p, s) ==
    LET nvidia == ProbeNvidia(p, s)
    IN  Lacks([nvidia EXCEPT !.backend = IF @ = "none" THEN "cpu" ELSE @], {"memory_total_bytes"})

\* The heuristic becomes the profile's limit, and is named as what it is.
ProbeLocalDevice(s) ==
    LET os == CASE s.os = "darwin" -> ProbeDarwin(Blank, s)
                [] s.os = "linux"  -> ProbeLinux(Blank, s)
                [] OTHER           -> ProbeOther(Blank, s)
        p == ProbeDisk(os, s)
    IN  IF p.limit # 0 \/ Usable(p) = Unmeasured THEN p
        ELSE [p EXCEPT !.limit = Usable(p), !.source = "heuristic"]

ProbeInit == profile = Blank
ProbeAgain == \E s \in Sources : profile' = ProbeLocalDevice(s)

(***************************************************************************)
(* Properties                                                              *)
(***************************************************************************)

\* A card that is named is the card whose memory is given, also when one tool answered
\* half and another was asked next: no profile is put together of two cards.
NameAndMemoryOfOneCard == profile.vramOf # <<>> => profile.gpu \in {<<>>, profile.vramOf}
=============================================================================
