-------------------------------- MODULE MCInputs --------------------------------
(***************************************************************************)
(* What the player takes in and gives out: devices and streams of sound,   *)
(* presets and lists of effects, and the buffers that hold the pictures,   *)
(* in one run.  They share no state: each behaviour takes the steps of     *)
(* one part and leaves the others as they were.                            *)
(***************************************************************************)
EXTENDS CaptureRing, InputStream, AudioDevices, PresetParser, ListWriters,
        EffectList, RenderBackends

VARIABLE part

Parts == {"capture", "stream", "devices", "preset", "list", "backends"}

\* Two device names, one of which contains the other.
TwoNames  == {"usb", "usb mic"}
NameMatch == {<<"usb", "usb">>, <<"usb", "usb mic">>, <<"usb mic", "usb mic">>}

\* Effects that keep what they are given, that want a first field, a count or
\* scripts; a comment; one that is not known; lists in lists.
Clear    == Leaf("decoded", 25, <<>>)
Fadeout  == Leaf("decoded", 3, <<5>>)
Colours  == Leaf("decoded", 0, <<1, 2, 5, 5>>)
Scripts  == Leaf("decoded", 45, <<1, 1, 7, 0, 0, 2, 7, 7, 1>>)
Custom   == Leaf("decoded", 15, <<32767, 33, 1, 1, 7>>)
Dots     == Leaf("decoded", 17, <<1, 5>>)
Newer    == Leaf("unknown", 46, <<7>>)
Border   == Ape("decoded", 16384, 1, <<7>>)
Loaded   == Ape("plugin", 16385, 2, <<>>)
Missing  == Ape("unknown", 16386, 3, <<7>>)
Plain    == <<0>>
Extended == <<Flagged, 3, 9, 9>>
Inner    == List(Plain, <<Comment(<<>>), Custom>>)
Middle   == List(Plain, <<Comment(<<7>>), Colours, Fadeout>>)
Outer    == List(Extended, <<Fadeout, Inner, Border>>)
ThreePresets ==
  {[mode |-> Plain,    effects |-> <<Clear, Middle, Dots>>],
   [mode |-> Extended, effects |-> <<Comment(<<7, 7>>), Scripts, Newer, Missing>>],
   [mode |-> Plain,    effects |-> <<Outer, Loaded, Fadeout>>]}
AllEffects ==
  {Clear, Fadeout, Colours, Scripts, Custom, Dots, Newer, Border, Loaded, Missing,
   Comment(<<>>), Comment(<<7>>), Comment(<<7, 7>>), Inner, Middle, Outer}

\* Documents with the same white space everywhere: their strings, objects and arrays
Text(string) == [what |-> "string", string |-> string]
Object(fields, gap) ==
  [what |-> "object", before |-> gap,
   fields |-> FoldRight(LAMBDA f, rest : [what |-> "fields", key |-> f[1], colon |-> gap,
                                          space |-> gap, value |-> f[2], after |-> gap,
                                          before |-> gap, rest |-> rest], fields, End)]
Array(objects, gap) ==
  [what |-> "array", before |-> gap,
   nodes |-> FoldRight(LAMBDA o, rest : [what |-> "nodes", node |-> o, after |-> gap,
                                         before |-> gap, rest |-> rest], objects, End)]

\* A tree, written down tightly, with white space and the effect last, or with other keys.
RECURSIVE Written(_, _)
Written(nodes, style) ==
  LET gap == IF style = "spaced" THEN <<Space>> ELSE <<>>
      Item(n) ==
        LET effect == <<"effect", Text(n.id)>>
            kids   == <<"children", Written(n.kids, style)>>
            number == [what |-> "bare", run |-> <<Bare, Space, Bare>>]
        IN  CASE style = "tight"  -> Object(<<effect, kids>>, gap)
              [] style = "spaced" -> Object(<<kids, effect>>, gap)
              [] style = "extra"  -> Object(<<<<"gain", number>>, <<"effect", Text("")>>, effect,
                                              <<"note", Text("x")>>, <<"tags", Array(<<>>, gap)>>,
                                              kids>>, gap)
  IN  Array([n \in DOMAIN nodes |-> Item(nodes[n])], gap)

\* Lists in lists, a name no factory knows, and one that only the last one does.
N(id, kids) == [id |-> id, kids |-> kids]
Single == <<N("mirror", <<>>)>>
SomeTrees ==
  {<<>>, Single,
   <<N("new", <<>>),
     N("list", <<N("mirror", <<>>), N("list", <<N("new", <<>>)>>)>>),
     N("mirror", <<N("new", <<>>)>>)>>}

\* One object; children in two parts; an effect that is missing, is empty in the end or
\* is no string, if only in an object that is skipped.
Mirror == Object(<<<<"effect", Text("mirror")>>>>, <<>>)
Halves == <<"children", Array(<<Mirror>>, <<Space>>)>>
Special ==
  {Mirror, Object(<<Halves, <<"effect", Text("list")>>, Halves>>, <<>>),
   Array(<<Mirror, Object(<<Halves>>, <<>>)>>, <<>>),
   Object(<<<<"effect", Text("mirror")>>, <<"effect", Text("")>>>>, <<>>),
   Array(<<Object(<<<<"effect", Array(<<>>, <<>>)>>>>, <<>>)>>, <<>>),
   Object(<<<<"effect", Text("mirror")>>, <<"meta", Object(<<>>, <<Space>>)>>>>, <<>>),
   Object(<<<<"meta", Mirror>>, <<"effect", Text("mirror")>>>>, <<Space>>)}

Levels == 40    \* of pieces; the deepest of these documents has 30
SomeTexts ==
  TextsOf({Written(nodes, style) : nodes \in SomeTrees, style \in {"tight", "spaced", "extra"}}
          \cup Special, Levels)
SomeFactories == {{"mirror"}, {"mirror", "list"}, {"mirror", "list", "new"}}

NoQuery  == /\ query = [kind |-> "none"] /\ answer = Nothing /\ done = FALSE
NoCapture ==
  /\ Init
  /\ ok = FALSE /\ useResampler = FALSE
NoPreset == /\ file = <<>> /\ lists = <<Frame(0, 0)>> /\ comments = <<>> /\ entries = <<>>
            /\ origin = Nothing
NoBackend ==
  /\ BackendsInit
  /\ backend = "CPU" /\ Len(pixels) = 1

InputsInit ==
  /\ part \in Parts
  /\ IF part = "capture" THEN Init ELSE NoCapture
  /\ AnalyzerInit /\ InputStreamInit
  /\ IF part = "devices" THEN DevicesInit ELSE NoQuery
  /\ IF part = "preset" THEN PresetParserInit ELSE NoPreset
  /\ EffectListInit
  /\ IF part = "backends" THEN BackendsInit ELSE NoBackend

\* The other parts stay as they are.
Only(p) ==
  /\ part = p /\ UNCHANGED part
  /\ p # "capture" => UNCHANGED vars
  /\ p # "stream"  => UNCHANGED <<analyzerVars, streamVars>>
  /\ p # "devices" => UNCHANGED devicesVars
  /\ p # "preset"  => UNCHANGED presetParserVars
  /\ p # "list"    => UNCHANGED effectListVars
  /\ p # "backends" => UNCHANGED backendsVars

InputsNext ==
  \/ Only("capture") /\ Next
  \/ Only("stream") /\ InputStreamNext
  \/ Only("devices") /\ Answer
  \/ Only("preset") /\ PresetParserNext
  \/ Only("list") /\ EffectListNext
  \/ Only("backends") /\ BackendsNext

allVars == <<part, vars, analyzerVars, streamVars, devicesVars, presetParserVars,
             effectListVars, backendsVars>>

\* The renderer polls in every frame and PortAudio's thread finishes a callback.
InputsSpec ==
  /\ InputsInit /\ [][InputsNext]_allVars
  /\ WF_allVars(Only("capture") /\ Poll)
  /\ WF_allVars(Only("capture") /\ (WriteSample \/ Publish))

===============================================================================
