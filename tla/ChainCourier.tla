---------------------------- MODULE ChainCourier ----------------------------
(***************************************************************************)
(* Fetching the chain of a hostname: the sans-IO chain builder, driven     *)
(* over one upstream resolver after another while zones roll their keys.   *)
(* The builder asks for the root's keys, for a DS record at every suffix   *)
(* of a name and the keys under each, and for the TXT leaf, whose answer   *)
(* it walks along its aliases; it frames what it was answered, and the     *)
(* validator judges the chain.                                             *)
(*                                                                         *)
(* MaxLinks stands for the unit cap in bytes, every link of one size.      *)
(* MaxTrouble bounds the degraded answers and the failed queries, MaxRolls *)
(* the steps of key rolls.                                                 *)
(***************************************************************************)
EXTENDS Validator

CONSTANTS
    Owner,       \* the hostname's _onomancy owner name
    Worlds,      \* the trees of zones that the fetch may meet
    Upstreams,   \* how many resolvers there are
    MaxLinks, MaxTrouble, MaxRolls

Name == Seq(STRING)

ASSUME CourierAssumption ==
    /\ Owner \in Name /\ Owner # Root
    /\ \A w \in Worlds :
          /\ Root \in DOMAIN w.cut /\ w.cut[Root].signed
          /\ DOMAIN w.alias \cap (w.txt \cup DOMAIN w.cut) = {}
          /\ DOMAIN w.cut \cup DOMAIN w.alias \cup w.txt \subseteq Name
          /\ w.alias \in [DOMAIN w.alias -> Name]
          /\ w.stage \in [DOMAIN w.cut -> Stages]
          /\ \A z \in DOMAIN w.cut, k \in Keys : w.window[z][k] \in Nat \X Nat
    /\ Upstreams \in Nat \ {0}
    /\ MaxLinks \in Nat /\ MaxTrouble \in Nat /\ MaxRolls \in Nat

VARIABLES
    world,
    stage,      \* [zone -> where it is in its key roll]
    upstream,   \* the resolver that is asked, of 1..Upstreams
    builder,    \* the chain builder
    result,     \* "None", "Framed" or "Failed"
    spoiled,    \* history: upstreams that failed, or that answered less than they knew
    trouble, rolls

vars == <<world, stage, upstream, builder, result, spoiled, trouble, rolls>>

-----------------------------------------------------------------------------
\* The builder. phase: what it awaits, or "Walking" inside a step, or how it ended.
BuildErrors == {"MissingRrset", "TooManyCnames", "OversizeChain"}

Stopped(b, phase) == [b EXCEPT !.phase = phase]

\* Mutant: one more turn.
StartBuilderOneMore ==
    [phase |-> "RootKeys", links |-> <<>>, zone |-> Root,
     name |-> Owner, depth |-> 1, deepest |-> Root, walking |-> FALSE,
     answers |-> {}, current |-> Owner, remaining |-> MaxHops + 2]

StartBuilder ==
    [phase |-> "RootKeys", links |-> <<>>, zone |-> Root,
     name |-> Owner, depth |-> 1, deepest |-> Root, walking |-> FALSE,
     answers |-> {}, current |-> Owner, remaining |-> MaxHops + 1]

\* What the machine asks next.
Question(b) ==
    CASE b.phase = "RootKeys" -> [name |-> Root, rtype |-> "DNSKEY"]
      [] b.phase = "Ds"       -> [name |-> TrimTo(b.name, b.depth), rtype |-> "DS"]
      [] b.phase = "Dnskey"   -> [name |-> TrimTo(b.name, b.depth), rtype |-> "DNSKEY"]
      [] b.phase = "Leaf"     -> [name |-> Owner, rtype |-> "TXT"]

Held(answers, owner, rtype) == {r \in answers : r.owner = owner /\ r.rtype = rtype}

\* Mutant: the links are not counted.
FramedUncapped(b, answers, owner, rtype) ==
    LET signed == {r \in Held(answers, owner, rtype) : r.signatures # <<>>}
    IN  IF signed = {} THEN Stopped(b, "MissingRrset")
        ELSE [b EXCEPT !.links = Append(@, CHOOSE r \in signed : TRUE)]

\* frame_rrset and Links::push.
Framed(b, answers, owner, rtype) ==
    LET signed == {r \in Held(answers, owner, rtype) : r.signatures # <<>>}
    IN  IF signed = {} THEN Stopped(b, "MissingRrset")
        ELSE IF Len(b.links) >= MaxLinks THEN Stopped(b, "OversizeChain")
        ELSE [b EXCEPT !.links = Append(@, CHOOSE r \in signed : TRUE)]

Going(b) == b.phase \notin BuildErrors

\* descend: probe the suffixes of a name from a depth on.
DescendInto(b, name, depth, base) ==
    [b EXCEPT !.phase = "Ds", !.name = name, !.depth = depth, !.deepest = base]

\* Mutant: a suffix that is not a cut is asked about again.
NextCutStuck(b) ==
    IF b.depth < Len(b.name) THEN [b EXCEPT !.phase = "Ds"]
    ELSE [b EXCEPT !.phase = IF b.walking THEN "Walking" ELSE "Leaf", !.zone = b.deepest]

\* next_cut, finish_descent.
NextCut(b) ==
    IF b.depth < Len(b.name) THEN [b EXCEPT !.phase = "Ds", !.depth = @ + 1]
    ELSE [b EXCEPT !.phase = IF b.walking THEN "Walking" ELSE "Leaf", !.zone = b.deepest]

AnswerRootKeys(b, answers) ==
    LET f == Framed(b, answers, Root, "DNSKEY")
    IN  IF Going(f) THEN DescendInto(f, Owner, 1, Root) ELSE f

\* No DS record: not a cut, or an unsigned one.
AnswerDs(b, answers) ==
    LET zone == TrimTo(b.name, b.depth)
        f == Framed(b, answers, zone, "DS")
    IN  IF Held(answers, zone, "DS") = {} THEN NextCut(b)
        ELSE IF Going(f) THEN [f EXCEPT !.phase = "Dnskey"] ELSE f

AnswerDnskey(b, answers) ==
    LET zone == TrimTo(b.name, b.depth)
        f == Framed(b, answers, zone, "DNSKEY")
    IN  IF Going(f) THEN NextCut([f EXCEPT !.deepest = zone]) ELSE f

\* Mutant: only what lies below the current zone is descended into.
FollowAliasBelow(b) ==
    LET f == Framed(b, b.answers, b.current, "CNAME")
        target == (CHOOSE r \in Held(b.answers, b.current, "CNAME") : TRUE).data
        next == [f EXCEPT !.current = target]
    IN  IF ~Going(f) THEN f
        ELSE IF Len(b.zone) < Len(target) THEN DescendInto(next, target, Len(b.zone) + 1, b.zone)
        ELSE next

\* One turn of the walk's loop, over an alias: into whatever lies below the
\* current zone, or down from the root.
FollowAlias(b) ==
    LET f == Framed(b, b.answers, b.current, "CNAME")
        target == (CHOOSE r \in Held(b.answers, b.current, "CNAME") : TRUE).data
        base == IF IsPrefix(b.zone, target) THEN b.zone ELSE Root
        next == [f EXCEPT !.current = target]
    IN  IF ~Going(f) THEN f
        ELSE IF Len(base) < Len(target) THEN DescendInto(next, target, Len(base) + 1, base)
        ELSE next

Turn(b, i) ==
    LET here == [b EXCEPT !.remaining = @ - 1]
        f == Framed(here, b.answers, b.current, "TXT")
    IN  IF b.phase # "Walking" THEN b
        ELSE IF b.remaining = 0 THEN Stopped(b, "TooManyCnames")
        ELSE IF Held(b.answers, b.current, "TXT") # {} THEN IF Going(f) THEN Stopped(f, "Done") ELSE f
        ELSE IF Held(b.answers, b.current, "CNAME") = {} THEN Stopped(here, "MissingRrset")
        ELSE FollowAlias(here)

\* Walk::advance: turns of the loop, until it awaits an answer or is over.
Advance(b) ==
    IF b.phase = "Walking" THEN FoldLeft(Turn, b, [i \in 1..b.remaining + 1 |-> i]) ELSE b

AnswerLeaf(b, answers) ==
    [b EXCEPT !.phase = "Walking", !.answers = answers, !.walking = TRUE]

\* ChainBuilder::answer.
Answered(b, answers) ==
    Advance(CASE b.phase = "RootKeys" -> AnswerRootKeys(b, answers)
              [] b.phase = "Ds"       -> AnswerDs(b, answers)
              [] b.phase = "Dnskey"   -> AnswerDnskey(b, answers)
              [] b.phase = "Leaf"     -> AnswerLeaf(b, answers))

-----------------------------------------------------------------------------
Init ==
    /\ world \in Worlds
    /\ stage = world.stage
    /\ upstream = 1 /\ builder = StartBuilder /\ result = "None"
    /\ spoiled = {} /\ trouble = 0 /\ rolls = 0

\* fetch_chain: a failure of one upstream passes the fetch to the next one,
\* which starts over; the last one's failure is the fetch's.
FailOver(last) ==
    IF upstream < Upstreams
    THEN upstream' = upstream + 1 /\ builder' = StartBuilder /\ UNCHANGED result
    ELSE result' = "Failed" /\ builder' = last /\ UNCHANGED upstream

\* One round of drive's loop.
Take(next) ==
    IF Going(next)
    THEN /\ builder' = next
         /\ result' = IF next.phase = "Done" THEN "Framed" ELSE result
         /\ UNCHANGED upstream
    ELSE FailOver(next)

WholeAnswer == Answer(world, stage, Question(builder), MaxHops + 1)

Respond ==
    /\ result = "None"
    /\ \E next \in {Answered(builder, WholeAnswer)} :
          /\ Take(next)
          /\ spoiled' = spoiled \cup {u \in {upstream} : next.phase = "OversizeChain"}
    /\ UNCHANGED <<world, stage, trouble, rolls>>

RespondDegraded ==
    /\ result = "None" /\ trouble < MaxTrouble
    /\ \E next \in {Answered(builder, answers) : answers \in Degraded(WholeAnswer)} : Take(next)
    /\ spoiled' = spoiled \cup {upstream}
    /\ trouble' = trouble + 1
    /\ UNCHANGED <<world, stage, rolls>>

\* A timeout, a refusal, a malformed response.
QueryFails ==
    /\ result = "None" /\ trouble < MaxTrouble
    /\ FailOver(Stopped(builder, "QueryFailed"))
    /\ spoiled' = spoiled \cup {upstream}
    /\ trouble' = trouble + 1
    /\ UNCHANGED <<world, stage, rolls>>

Roll(z) ==
    /\ result = "None" /\ rolls < MaxRolls /\ world.cut[z].signed /\ stage[z] # "New"
    /\ stage' = [stage EXCEPT ![z] = IF @ = "Old" THEN "Rolling" ELSE "New"]
    /\ rolls' = rolls + 1
    /\ UNCHANGED <<world, upstream, builder, result, spoiled, trouble>>

Next ==
    \/ Respond \/ RespondDegraded \/ QueryFails
    \/ \E z \in DOMAIN stage : Roll(z)

Spec == Init /\ [][Next]_vars

-----------------------------------------------------------------------------
\* What the zones say of the owner, by themselves.
Path == Visited(world, Owner, MaxHops)
Leaf == Path[MaxHops]

\* The zones that somebody at the root must trust to be told that.
Covering == {z \in DOMAIN world.cut : \E n \in Range(Path) : IsPrefix(z, n)}

Secure ==
    /\ Leaf \in world.txt \ world.wild
    /\ \A z \in Covering : world.cut[z].signed /\ (z # Root => world.cut[z].ds)

Windows == UNION {{world.window[z][k] : k \in Keys} : z \in Covering}
Joint == \E t \in 0..Horizon : \A win \in Windows : win[1] <= t /\ t <= win[2]

Proof == Validate(Owner, builder.links)
Proven == result = "Framed" /\ Proof.verdict = "Proven"

\* Whatever resolvers leave out, strip or fail to answer, and whenever zones
\* roll their keys, a chain that validates proves what the zones say: its leaf
\* is the end of the owner's aliases, and every zone on the way there is signed
\* and securely delegated (chain_provider.rs: a broken provider "can cause
\* staleness or rejection, never a false bind").
NoFalseBinding == Proven => Secure /\ Proof.target = Leaf

\* An anchor is among the root's keys, those of the start of the fetch and those of now.
Anchored ==
    \A st \in {world.stage[Root], stage[Root]} : ToSet(KeysAt(st)) \cap Anchors # {}

\* No zone goes the whole way of a roll while the fetch lasts.
RolledOnce == \A z \in DOMAIN world.cut : ~(world.stage[z] = "Old" /\ stage[z] = "New")

\* A binding that the zones do publish arrives: the chain that the builder
\* frames from whole answers validates, across aliases, deeper cuts, re-entry
\* at the root and a step of each zone's key roll in between, and the fetch fails only
\* when every upstream was in trouble or the chain outgrew the cap.
PublishedBindingArrives ==
    Secure /\ Joint /\ Anchored /\ RolledOnce /\ Leaf \notin DOMAIN world.alias =>
        /\ result = "Framed" /\ upstream \notin spoiled => Proven
        /\ result = "Failed" => spoiled = 1..Upstreams

\* The window of a proof is joint: at every moment of it, each link on the way
\* to the leaf has a signature in force, those of both branches of an alias
\* included (validator.rs: "the freshness window keeps intersecting across
\* both branches").
WindowIsJoint ==
    Proven =>
        /\ Proof.window[1] <= Proof.window[2]
        /\ \A i \in DOMAIN builder.links : \E j \in DOMAIN builder.links[i].signatures :
              LET win == builder.links[i].signatures[j].window
              IN  win[1] <= Proof.window[1] /\ Proof.window[2] <= win[2]

\* What the builder frames has the shape that the validator walks, whatever it
\* was answered, and is within the cap: only a signature, a window, a delegation
\* or a synthesized leaf can be wrong with it, or the root has rolled to keys
\* that are no anchor. In particular the two agree on the hop bound.
FramedHasShape ==
    /\ Len(builder.links) <= MaxLinks
    /\ result = "Framed" =>
          \/ Proof.verdict \in {"Proven", "NoUsableSignature", "EmptyWindow", "DsMismatch",
                                "WildcardExpansion"}
          \/ Proof.verdict = "Unanchored" /\ Head(builder.links).data \cap Anchors = {}

\* dns-anchor.md: "Verifiers MUST reject wildcard-synthesized answers". The code
\* rejects a synthesized leaf and follows a synthesized alias.
SynthesizedIsRejected == Proven => \A i \in DOMAIN builder.links : ~builder.links[i].expanded

\* How much is left of a fetch: upstreams, then turns of the walk after its
\* answer, then suffixes of the name at hand.
Effort ==
    <<Upstreams - upstream,
      CASE builder.phase = "RootKeys" -> 3
        [] builder.phase = "Leaf" -> 1
        [] OTHER -> IF builder.walking THEN 0 ELSE 2,
      builder.remaining,
      Len(builder.name) - builder.depth,
      IF builder.phase = "Ds" THEN 1 ELSE 0>>

Less(a, b) == \E i \in DOMAIN a : a[i] < b[i] /\ \A j \in 1..i - 1 : a[j] = b[j]

\* Every answer brings the fetch nearer to its end, loops of aliases and lost
\* answers included, so that a fetch whose queries are answered or time out
\* ends (builder.rs: "Bounded CNAME indirection").
EveryAnswerCounts ==
    [][result' = "None" /\ UNCHANGED rolls => Less(Effort', Effort)]_vars
=============================================================================
