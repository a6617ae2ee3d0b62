------------------------------ MODULE InputStream ------------------------------
(***************************************************************************)
(* AudioEngine::InputStream (libs/avs-audio-io/src/AudioEngine.cpp) and    *)
(* the analyzer its callback feeds.  PortAudio calls back on a thread of   *)
(* its own, with a plain pointer to the stream's Impl, from Pa_StartStream *)
(* until Pa_StopStream returns; the thread that owns the handles opens,    *)
(* assigns and destroys them meanwhile.                                    *)
(*                                                                         *)
(* The analyzer's mutex serialises the callbacks of several streams.  A    *)
(* device that cannot capture and a format it does not take leave nothing  *)
(* behind; these errors are left out.                                      *)
(***************************************************************************)
EXTENDS LiveAnalyzer

CONSTANTS
  Handles,      \* the InputStream objects of the program
  MaxStreams    \* bound: streams opened

ASSUME InputStreamAssumption == MaxStreams \in Nat

VARIABLES
  handle,     \* impl_ of each InputStream: the number of its stream, or Empty
  streams,    \* of each stream: what PortAudio has of it, whether its Impl is alive
  owner,      \* what the owning thread is in the middle of
  caller,     \* the stream whose callback is underway, or Empty
  dropped     \* history: the streams whose handle was assigned another one

streamVars == <<handle, streams, owner, caller, dropped>>

Empty       == 0
Idle        == [call |-> "none"]
Opening(s)  == [call |-> "openInputStream", stream |-> s]
Destroyed(h) == [call |-> "~InputStream", of |-> h]

InputStreamInit ==
  /\ handle  = [h \in Handles |-> Empty]
  /\ streams = <<>>
  /\ owner   = Idle
  /\ caller  = Empty
  /\ dropped = {}

-------------------------------------------------------------------------------
\* The last owner of an Impl lets go of it: the Impl has no destructor, so
\* PortAudio is not told.
Released(s, all) == IF s = Empty THEN all ELSE [all EXCEPT ![s].impl = "freed"]

\* Pa_OpenStream: the Impl exists and PortAudio knows its address.
OpenStream ==
  /\ owner = Idle
  /\ Len(streams) < MaxStreams
  /\ \/ /\ streams' = Append(streams, [device |-> "open", impl |-> "alive"])
        /\ owner' = Opening(Len(streams'))
     \/ /\ streams' = Append(streams, [device |-> "closed", impl |-> "freed"])
        /\ UNCHANGED owner
  /\ UNCHANGED <<handle, caller, dropped>>

\* Pa_StartStream: when it fails the stream is closed before the Impl goes.
StartStream ==
  /\ owner.call = "openInputStream"
  /\ streams[owner.stream].device = "open"
  /\ \/ /\ streams' = [streams EXCEPT ![owner.stream].device = "running"]
        /\ UNCHANGED owner
     \/ /\ streams' = [streams EXCEPT ![owner.stream] = [device |-> "closed", impl |-> "freed"]]
        /\ owner' = Idle
  /\ UNCHANGED <<handle, caller, dropped>>

\* h = openInputStream(...): the callbacks may have begun before the assignment,
\* which forgets what h held.
Assign(h) ==
  /\ owner.call = "openInputStream"
  /\ streams[owner.stream].device = "running"
  /\ handle'  = [handle EXCEPT ![h] = owner.stream]
  /\ streams' = Released(handle[h], streams)
  /\ dropped' = dropped \cup ({handle[h]} \ {Empty})
  /\ owner'   = Idle
  /\ UNCHANGED caller

\* to = std::move(from)
Move(from, to) ==
  /\ owner = Idle
  /\ from # to /\ handle[from] # Empty
  /\ handle'  = [handle EXCEPT ![to] = handle[from], ![from] = Empty]
  /\ streams' = Released(handle[to], streams)
  /\ dropped' = dropped \cup ({handle[to]} \ {Empty})
  /\ UNCHANGED <<owner, caller>>

\* ~InputStream calls Pa_StopStream, which waits for a callback underway.
BeginDestroy(h) ==
  /\ owner = Idle
  /\ handle[h] # Empty
  /\ owner' = Destroyed(h)
  /\ UNCHANGED <<handle, streams, caller, dropped>>

\* mutant: the defaulted destructor, which tells PortAudio nothing
EndDestroyDefaulted ==
  /\ owner.call = "~InputStream"
  /\ streams' = Released(handle[owner.of], streams)
  /\ handle'  = [handle EXCEPT ![owner.of] = Empty]
  /\ owner'   = Idle
  /\ UNCHANGED <<caller, dropped>>

\* The stream is stopped and closed, then the Impl is released.
EndDestroy ==
  /\ owner.call = "~InputStream"
  /\ caller # handle[owner.of]
  /\ streams' = [streams EXCEPT ![handle[owner.of]] = [device |-> "closed", impl |-> "freed"]]
  /\ handle'  = [handle EXCEPT ![owner.of] = Empty]
  /\ owner'   = Idle
  /\ UNCHANGED <<caller, dropped>>

Own ==
  /\ \/ OpenStream
     \/ StartStream
     \/ \E h \in Handles : Assign(h) \/ BeginDestroy(h)
     \/ \E from, to \in Handles : Move(from, to)
     \/ EndDestroy
  /\ UNCHANGED analyzerVars

\* paStreamCallback, on PortAudio's thread: it reaches the analyzer through the
\* Impl and is underway until pushSamples has returned.
Callback(s) ==
  /\ streams[s].device = "running"
  /\ caller = Empty
  /\ caller' = s
  /\ \E n \in 1..MaxFrames : PushBegin(n)

CallbackReturns ==
  /\ caller' = Empty
  /\ PushEnd

InputStreamNext ==
  \/ Own
  \/ /\ (\E s \in DOMAIN streams : Callback(s)) \/ CallbackReturns
     /\ UNCHANGED <<handle, streams, owner, dropped>>
  \/ /\ PushFrame \/ AnalyzerPoll
     /\ UNCHANGED streamVars

InputStreamSpec == AnalyzerInit /\ InputStreamInit /\ [][InputStreamNext]_<<analyzerVars, streamVars>>

-------------------------------------------------------------------------------
InputStreamTypeOK ==
  /\ handle \in [Handles -> {Empty} \cup DOMAIN streams]
  /\ \A s \in DOMAIN streams :
       streams[s] \in [device : {"open", "running", "closed"}, impl : {"alive", "freed"}]
  /\ caller \in {Empty} \cup DOMAIN streams
  /\ dropped \subseteq DOMAIN streams

\* A callback finds its Impl alive from its first to its last instruction, and
\* each stream PortAudio still has belongs to exactly one handle or to the call
\* that opens it, whatever fails, moves and is destroyed in between: except for a
\* stream whose handle was assigned another one, which runs on with a freed Impl.
CallbacksFindTheirStream ==
  /\ caller # Empty /\ caller \notin dropped => streams[caller].impl = "alive"
  /\ \A s \in DOMAIN streams \ dropped :
       streams[s].device # "closed" <=>
         \/ owner = Opening(s)
         \/ \E h \in Handles : handle[h] = s /\ \A g \in Handles \ {h} : handle[g] # s

===============================================================================
