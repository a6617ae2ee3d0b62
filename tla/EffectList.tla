------------------------------ MODULE EffectList ------------------------------
(***************************************************************************)
(* EffectListEffect (libs/avs-compat/src/effects_misc.cpp): a list of      *)
(* effects described by a text, whose children come and go with the text,  *)
(* the factory and the initialisation, in any order.  A child is           *)
(* [id, context, kids].  The text itself, which parameters() gives back    *)
(* even when it was rejected, is not kept in the state.                    *)
(***************************************************************************)
EXTENDS ListText, SequencesExt

CONSTANTS
  Texts,        \* texts: [tokens, and the tree they describe, or <<>> if they do not]
  Factories,    \* sets of the effects a factory makes; it makes lists if "list" is one
  Contexts,     \* values of InitContext
  MaxDepth      \* bound: how deep the lists of a text nest, itself included

NoFactory == {}      \* none at all: like one that makes nothing
NoContext == "none"

\* Lists of nodes, by how deep they nest.
Lists[d \in 0..MaxDepth] == IF d = 0 THEN {} ELSE Seq([id : STRING, kids : Lists[d - 1]])

ASSUME EffectListAssumption ==
  /\ MaxDepth \in Nat \ {0}
  /\ \A text \in Texts : Parse(text.tokens).value \in Lists[MaxDepth]
  /\ \A f \in Factories : f \subseteq STRING /\ f \cap (Marks \cup {Bare, Broken}) = {}
  /\ NoContext \notin Contexts

VARIABLES
  tree,       \* configTree_
  factory,    \* factory_
  context,    \* initContext_, or NoContext before the first init
  children,   \* children_
  intended    \* history: the tree that the text describes, or none

effectListVars == <<tree, factory, context, children, intended>>

EffectListInit ==
  /\ tree = <<>>
  /\ factory = NoFactory
  /\ context = NoContext
  /\ children = <<>>
  /\ intended = <<>>

-------------------------------------------------------------------------------
(* The children *)

\* Lists of children, by how deep they nest.
Children[d \in 0..MaxDepth] ==
  IF d = 0 THEN {}
  ELSE Seq([id : STRING, context : Contexts \cup {NoContext}, kids : Children[d - 1]])

\* The nodes that the factory makes an effect of; the others are passed over.
Known(nodes, makes) ==
  FlattenSeq([n \in DOMAIN nodes |-> IF nodes[n].id \in makes THEN <<nodes[n]>> ELSE <<>>])

\* rebuildChildren of a list that is not initialised yet: a list among the children
\* builds its own.
Rebuilt(nodes, makes) ==
  LET Below[d \in 0..MaxDepth] ==
        [list \in Lists[d] |->
           [n \in DOMAIN Known(list, makes) |->
              LET node == Known(list, makes)[n]
              IN  [id |-> node.id, context |-> NoContext,
                   kids |-> IF node.id = "list" THEN Below[d - 1][node.kids] ELSE <<>>]]]
  IN  Below[MaxDepth][nodes]

\* init of each child, which goes on to a list's own.
InitAll(kids, ctx) ==
  LET Below[d \in 0..MaxDepth] ==
        [list \in Children[d] |->
           [n \in DOMAIN list |->
              [id |-> list[n].id, context |-> ctx, kids |-> Below[d - 1][list[n].kids]]]]
  IN  Below[MaxDepth][kids]

\* mutant: new children are not initialised
ChildrenForNew(nodes, f) == Rebuilt(nodes, f)

ChildrenFor(nodes, f) ==
  IF context = NoContext THEN Rebuilt(nodes, f) ELSE InitAll(Rebuilt(nodes, f), context)

\* setFactory
SetFactory(f) ==
  /\ factory' = f
  /\ children' = IF tree # <<>> THEN ChildrenFor(tree, f) ELSE children
  /\ UNCHANGED <<tree, context, intended>>

\* init
Initialise(ctx) ==
  /\ context' = ctx
  /\ children' = InitAll(children, ctx)
  /\ UNCHANGED <<tree, factory, intended>>

\* set_parameter: a text that is rejected empties the list.
SetConfig(text) ==
  /\ intended' = text.tree
  /\ \E parsed \in {Parse(text.tokens)} :
       IF text.tokens # <<>> /\ ~parsed.ok
         THEN tree' = <<>> /\ children' = <<>>
         ELSE /\ tree' = parsed.value
              /\ children' = ChildrenFor(parsed.value, factory)
  /\ UNCHANGED <<factory, context>>

EffectListNext ==
  \/ \E f \in Factories \cup {NoFactory} : SetFactory(f)
  \/ \E ctx \in Contexts : Initialise(ctx)
  \/ \E text \in Texts : SetConfig(text)

EffectListSpec == EffectListInit /\ [][EffectListNext]_effectListVars

-------------------------------------------------------------------------------

\* The children that a list of nodes asks for.
Described(nodes, makes, ctx) ==
  LET Below[d \in 0..MaxDepth] ==
        [list \in Lists[d] |->
           [n \in DOMAIN Known(list, makes) |->
              LET node == Known(list, makes)[n]
              IN  [id |-> node.id, context |-> ctx,
                   kids |-> IF node.id = "list" THEN Below[d - 1][node.kids] ELSE <<>>]]]
  IN  Below[MaxDepth][nodes]

\* In whatever order the text, the factory and the context were set, the list has
\* the children that the last text describes, each made by the last factory and
\* initialised with the last context, at every depth.
ChildrenAreConfigured == children = Described(tree, factory, context)

\* However a text is laid out, with whatever other keys, it is understood as the tree
\* it was written from; one that was cut off or has something after its end leaves
\* nothing.
TextIsUnderstood == tree = intended

EffectListTypeOK ==
  /\ tree \in Lists[MaxDepth]
  /\ factory \in SUBSET STRING
  /\ context \in Contexts \cup {NoContext}
  /\ children \in Children[MaxDepth]

===============================================================================
