------------------------------ MODULE AudioDevices ------------------------------
(***************************************************************************)
(* Which device and which format a capture gets: negotiateStream and       *)
(* resolveInputDeviceIdentifier (audio_portaudio.cpp) for AudioInput,      *)
(* selectInputDevice (AudioEngine.cpp) for the player.  They are pure: a   *)
(* behaviour poses one query and computes its answer.                      *)
(*                                                                         *)
(* Devices are sequences in enumeration order.  PortAudio may have no      *)
(* information for an index, so the indices need not be consecutive.       *)
(***************************************************************************)
EXTENDS Integers, Sequences, SequencesExt

CONSTANTS
  Rates,        \* sample rates; 0 stands for a rate that is not positive
  MaxChannels,  \* bound: channels of a device
  Names,        \* device names
  Matches,      \* <<needle, name>>: the name contains the needle, case apart
  MaxDevices    \* bound: devices enumerated

None == -1

ASSUME DevicesAssumption ==
  /\ Rates \subseteq Nat /\ 0 \in Rates
  /\ MaxChannels \in Nat /\ MaxDevices \in Nat
  /\ Matches \subseteq Names \X Names

VARIABLES query, answer, done
devicesVars == <<query, answer, done>>

AtLeast1(n) == IF n < 1 THEN 1 ELSE n
Positive == Rates \ {0}

\* The first element of ds that belongs to D, as a set of at most one.
First(ds, D) ==
  {ds[i] : i \in {k \in DOMAIN ds : ds[k] \in D /\ \A j \in 1..(k - 1) : ds[j] \notin D}}

-------------------------------------------------------------------------------
(* negotiateStream *)

NegotiationQueries ==
  [kind : {"negotiate"},
   engineChannels : 0..MaxChannels, requestedChannels : {None} \cup 0..MaxChannels,
   useDefaultChannels : BOOLEAN,
   engineRate : Positive, requestedRate : {None} \cup Positive, useDefaultRate : BOOLEAN,
   maxIn : 0..MaxChannels, deviceRate : Rates,
   supported : SUBSET Positive]     \* the rates at which the format is supported

\* In AudioInput the default channel count is the maximum one.
Channels(q) ==
  LET desired == IF q.requestedChannels # None THEN AtLeast1(q.requestedChannels)
                 ELSE IF q.useDefaultChannels /\ q.maxIn > 0 THEN q.maxIn
                 ELSE AtLeast1(q.engineChannels)
  IN  IF desired < q.maxIn THEN desired ELSE q.maxIn

DeviceRate(q) == IF q.deviceRate > 0 THEN q.deviceRate ELSE q.engineRate

Candidate(q) ==
  IF q.requestedRate # None THEN q.requestedRate
  ELSE IF q.useDefaultRate THEN DeviceRate(q)
  ELSE q.engineRate

\* The candidate, then the device's rate, then the engine's.
RatesTried(q) == <<Candidate(q), DeviceRate(q), q.engineRate>>

Negotiate(q) ==
  LET tried == RatesTried(q)
      hit   == First(tried, q.supported)
  IN  IF q.maxIn <= 0
        THEN [supported |-> FALSE, channels |-> 0, rate |-> 0, fallback |-> FALSE]
        ELSE [supported |-> hit # {},
              channels  |-> Channels(q),
              rate      |-> IF hit = {} THEN tried[1] ELSE CHOOSE r \in hit : TRUE,
              fallback  |-> hit # {} /\ tried[1] \notin q.supported]

-------------------------------------------------------------------------------
(* Devices *)

Devices == [index : 0..(MaxDevices - 1), name : Names, in : 0..1, out : 0..1, rate : Rates]

Enumerations ==
  {ds \in SeqOf(Devices, MaxDevices) :
     \A i, j \in DOMAIN ds : i < j => ds[i].index < ds[j].index}

Capturing == {d \in Devices : d.in > 0}

Found(d) == [device |-> d.index, error |-> FALSE]
Error    == [device |-> None, error |-> TRUE]
Nothing  == [device |-> None, error |-> FALSE]

\* resolveInputDeviceIdentifier: an identifier is absent, an index or a needle.
\* The count includes the devices PortAudio gives no information about.
ResolutionQueries ==
  [kind : {"resolve"}, devices : Enumerations, count : 0..MaxDevices,
   by : {"absent", "index", "name"}, index : -1..MaxDevices, name : Names]

ResolveIndex(q) ==
  LET same == First(q.devices, {d \in Devices : d.index = q.index})
  IN  IF q.index \notin 0..(q.count - 1) \/ \E d \in same : d.in = 0 THEN Error
      ELSE [device |-> q.index, error |-> FALSE]

\* The first name that matches decides, even if it cannot capture and a later
\* one can.
ResolveName(q) ==
  LET matching == First(q.devices, {d \in Devices : <<q.name, d.name>> \in Matches})
  IN  IF matching = {} \/ \E d \in matching : d.in = 0 THEN Error
      ELSE Found(CHOOSE d \in matching : TRUE)

\* An index that is in range is passed on even without information about it.
Resolve(q) ==
  IF q.by = "absent" THEN Nothing
  ELSE IF q.count = 0 THEN Error
  ELSE IF q.by = "index" THEN ResolveIndex(q)
  ELSE ResolveName(q)

\* selectInputDevice; error is an exception.
SelectionQueries ==
  [kind : {"select"}, devices : Enumerations,
   by : {"absent", "index", "name"}, index : -1..MaxDevices, name : Names, preferred : Rates]

RateMatches(d, preferred) == preferred = 0 \/ (d.rate > 0 /\ d.rate = preferred)

\* mutant: a request that cannot be met falls back to the preferred device
SelectWithFallback(q) ==
  LET named == First(q.devices, {d \in Capturing : IF q.by = "index" THEN d.index = q.index
                                                                     ELSE d.name = q.name})
      any   == First(q.devices, Capturing)
      pick  == IF q.by # "absent" /\ named # {} THEN named ELSE any
  IN  IF pick = {} THEN Error ELSE Found(CHOOSE d \in pick : TRUE)

Select(q) ==
  LET named == IF q.by = "index" THEN First(q.devices, {d \in Devices : d.index = q.index})
                                 ELSE First(q.devices, {d \in Devices : d.name = q.name})
      best  == First(q.devices,
                     {d \in Capturing : d.out > 0 /\ RateMatches(d, q.preferred)})
      any   == First(q.devices, Capturing)
      pick  == IF best # {} THEN best ELSE any
  IN  IF q.by # "absent"
        THEN IF \E d \in named : d.in > 0 THEN Found(CHOOSE d \in named : TRUE) ELSE Error
        ELSE IF pick = {} THEN Error ELSE Found(CHOOSE d \in pick : TRUE)

-------------------------------------------------------------------------------
DevicesInit ==
  /\ query \in {q \in ResolutionQueries :
                  \A i \in DOMAIN q.devices : q.devices[i].index < q.count}
               \cup SelectionQueries \cup NegotiationQueries
  /\ answer = Nothing
  /\ done = FALSE

Answer ==
  /\ answer' = CASE query.kind = "negotiate" -> Negotiate(query)
                 [] query.kind = "resolve"   -> Resolve(query)
                 [] query.kind = "select"    -> Select(query)
  /\ done' = TRUE
  /\ UNCHANGED query

DevicesSpec == DevicesInit /\ [][Answer]_devicesVars

-------------------------------------------------------------------------------
Answered(kind) == done /\ query.kind = kind
Chosen         == {query.devices[i] : i \in {k \in DOMAIN query.devices :
                                               query.devices[k].index = answer.device}}

\* A negotiation that succeeds has a rate and channels the device supports; it
\* departs from the rate that was asked for only if that is not supported, then
\* takes the device's own rate if it can and the engine's as the last resort, and
\* it fails only if none of the three is supported.
NegotiationSound ==
  Answered("negotiate") =>
    LET wish == Candidate(query)
    IN  /\ answer.supported => answer.rate \in query.supported /\ answer.channels \in 1..query.maxIn
        /\ answer.supported /\ answer.rate # wish => answer.fallback /\ wish \notin query.supported
        /\ answer.fallback /\ DeviceRate(query) \in query.supported => answer.rate = DeviceRate(query)
        /\ ~answer.supported /\ query.maxIn > 0 =>
             query.supported \cap {wish, DeviceRate(query), query.engineRate} = {}

\* A device found by resolve is the one asked for, the first that matches, and
\* can capture if PortAudio has information about it.
ResolutionSound ==
  (Answered("resolve") /\ answer.device # None) =>
    /\ \A d \in Chosen : d.in > 0
    /\ query.by = "index" => answer.device = query.index
    /\ query.by = "name" =>
         /\ Chosen # {}
         /\ \A d \in Chosen : <<query.name, d.name>> \in Matches
         /\ \A d \in {query.devices[i] : i \in DOMAIN query.devices} :
              <<query.name, d.name>> \in Matches => answer.device <= d.index

\* Without a request a capture is found whenever any device can capture, and a
\* full-duplex device of the preferred rate is taken before any other.  A device
\* that was asked for is never replaced by another one.
SelectionSound ==
  Answered("select") =>
    LET able  == {i \in DOMAIN query.devices : query.devices[i].in > 0}
        ideal == {i \in able : /\ query.devices[i].out > 0
                               /\ query.preferred \in {0, query.devices[i].rate}}
    IN  IF query.by = "absent"
          THEN /\ answer.error <=> able = {}
               /\ ideal # {} => \E i \in ideal : answer.device = query.devices[i].index
          ELSE answer.error \/ \E d \in Chosen :
                 /\ d.in > 0
                 /\ IF query.by = "index" THEN d.index = query.index ELSE d.name = query.name

\* What a capture is opened with is what was asked for, or the best there is.
DevicesSound == NegotiationSound /\ ResolutionSound /\ SelectionSound

===============================================================================
