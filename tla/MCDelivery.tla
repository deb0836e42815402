----------------------------- MODULE MCDelivery -----------------------------
(***************************************************************************)
(* How evidence comes to a verifier, in five stories that share no state;  *)
(* a behaviour tells one of them.                                          *)
(*   chain    a chain is fetched and validated (MCChain);                  *)
(*   link     one link of it is handed on;                                 *)
(*   records  the RRset at its leaf is minted and read;                    *)
(*   unit     a signed unit travels as bytes;                              *)
(*   stores   two devices exchange four items whose extraction could       *)
(*            depend on order: two certificates that carry the same        *)
(*            rotation, the rotation on its own, and a bare refresh that   *)
(*            only the second certificate vouches for.                     *)
(***************************************************************************)
EXTENDS MCChain, Replicas

CONSTANTS
    UnitKeys, Hostnames, Made, MaxUnit, Intended, Tails, Noise, MaxEdits, MaxHeld,
    KeyOf, MaxSerial, Bodies, Strays, Drift, FirstTime, LastTime, MaxStrings, MaxStrays,
    Uppercase, Zone, ZoneKeys, Published, Commitments, StandsFor, Changed, Times, MaxTouches,
    Stories

VARIABLES
    story,
    carried, held, edits,
    now, rrset, meant, splitting,
    link, faithful, touches

T == INSTANCE Units WITH Keys <- UnitKeys

R == INSTANCE TxtRecords

L == INSTANCE Links

-----------------------------------------------------------------------------
Chain(from, end, gen, serial) ==
    [valid |-> TRUE, from |-> from, end |-> end,
     txt |-> <<[doc |-> 1, gen |-> gen, serial |-> serial],
               [doc |-> 2, gen |-> 1, serial |-> serial]>>]

Cert(gen, authorized, path, lineage) ==
    [kind |-> "Record", host |-> "a", doc |-> 1, chain |-> Chain(0, 2, gen, gen),
     issued |-> gen, authorized |-> authorized, path |-> path,
     lineage |-> lineage, predecessor |-> {5}]

MCContent ==
    1 :> Cert(1, FALSE, {1}, {4}) @@
    2 :> Cert(2, TRUE, {1, 2}, {4}) @@
    3 :> [kind |-> "ChainRefresh", host |-> "a", chain |-> Chain(1, 3, 2, 3)] @@
    4 :> [kind |-> "Rotation", doc |-> 1, replaced |-> 1, successor |-> 2,
          authorized |-> TRUE] @@
    5 :> [kind |-> "Successor", host |-> "a", pred |-> 2, succ |-> 1,
          authorized |-> FALSE, path |-> {}]

-----------------------------------------------------------------------------
\* The unit. Keys: 1 and 4 are documents, 2 and 3 generations, 5 is an admin.
MCUnitKeys == 1..5

MCHostnames == {<<8>>}

RotationFields   == <<1, 2, 3>>
SuccessionFields == <<4, 1, 5, <<8>>>>

Succession ==
    [kind |-> "ONS", fields |-> SuccessionFields, signature |-> 92, tail |-> <<<<>>>>]

Rotation ==
    [kind |-> "ONR", fields |-> RotationFields, signature |-> 91, tail |-> <<<<<<5>>>>>>]

BindingFields == <<1, 5, 2, <<8>>, <<6, 7>>, <<Succession>>>>

\* The regions these signatures cover, written out.
MCMade ==
    91 :> [key |-> 3, region |-> <<72, 1, 2, 3>>] @@
    92 :> [key |-> 5, region |-> <<73, 4, 1, 5, 1, 8>>] @@
    93 :> [key |-> 5, region |-> <<71, 1, 5, 2, 1, 8, 2, 6, 7,
                                   8, 73, 4, 1, 5, 1, 8, 92, 0>>]

\* The certificate's signer has its heads out of order, and one twice.
MCIntended ==
    {[kind |-> "ONR", params |-> RotationFields, tail |-> <<<<<<5>>>>>>],
     [kind |-> "ONS", params |-> SuccessionFields, tail |-> <<<<>>>>],
     [kind |-> "ONC", params |-> [BindingFields EXCEPT ![5] = <<7, 6, 7>>],
      tail |-> <<<<>>, <<Rotation>>, <<<<1>>>>>>]}

\* The second chain is too long for the certificate to take.
MCTails ==
    {<<<<<<6>>>>, <<Rotation>>, <<<<2>>>>>>, <<<<>>, <<>>, <<<<1, 1, 1, 1, 1, 1>>, <<1, 1, 1, 1, 1, 1>>>>>>}

-----------------------------------------------------------------------------
\* The RRset: documents are 1 and 2, generations 3 and 4.
MCKeyOf == "K1" :> 1 @@ "K2" :> 2 @@ "K3" :> 3 @@ "K4" :> 4
MCBodies == {[doc |-> 1, gen |-> 3], [doc |-> 1, gen |-> 4], [doc |-> 2, gen |-> 4]}
Record0(serial, tail) == <<"v=ONO", "0", ";", "k=", "ed25519", ";", "n=">> \o serial \o tail
Ending == <<";", "g=", "K4", ";", "p=", "K1">>
Record12 == <<<<"v=ONO", "0">>, Tail(Tail(Record0(<<"1", "2">>, Ending)))>>
MCStrays ==
    {Record12} \cup {<<text>> : text \in {
        <<"spf">>,
        <<"v=ONO", "x">>,
        <<"v=ONO", "1", ";", "x">>,
        <<"v=ONO", "0", "0", ";", "x">>,
        Record0(<<"0", "9">>, Ending),
        Record0(<<"1", "3">>, Ending),
        Record0(<<"9">>, <<";", "p=", "K1", ";", "g=", "K4">>),
        Record0(<<"9">>, <<";", "g=", "k4", ";", "p=", "K1">>),
        Record0(<<"9">>, Ending \o <<";", "x">>),
        <<"v=ONO", "0", ";", "k=", "rsa", ";", "n=", "9">> \o Ending}}

-----------------------------------------------------------------------------
\* The link. The third key signs no zone data.
MCUppercase == "E" :> "e"
MCZone == <<"c", "e">>
Key(flags, protocol, algorithm, key) ==
    [flags |-> flags, protocol |-> protocol, algorithm |-> algorithm, key |-> key]
First == Key({"ZONE", "SEP"}, 3, "ED25519", "k1")
Second == Key({"ZONE"}, 3, "RSA_SHA256", "k2")
Third == Key({}, 3, "ED25519", "k3")
MCZoneKeys == <<First, Second, Third>>
Text(t) == [text |-> t]
MCPublished == {
    [owner |-> <<"c", "e", "o">>, rtype |-> "TXT", rdatas |-> {Text("t1"), Text("t2")},
     ttl |-> 2, window |-> <<1, 5>>],
    [owner |-> <<"c", "e", "*">>, rtype |-> "TXT", rdatas |-> {Text("t3")},
     ttl |-> 2, window |-> <<2, 6>>],
    [owner |-> MCZone, rtype |-> "DNSKEY", rdatas |-> ToSet(MCZoneKeys),
     ttl |-> 2, window |-> <<1, 6>>]}
MCCommitments == {
    [algorithm |-> "ED25519", digestType |-> "SHA256",
     digest |-> [owner |-> MCZone, key |-> First]],
    [algorithm |-> "RSA_SHA256", digestType |-> "SHA384",
     digest |-> [owner |-> MCZone, key |-> Second]]}
MCStandsFor == <<"c", "e", "*">> :> {<<"c", "e", "o">>, <<"c", "E", "n">>, <<"c", "e", "n", "m">>}
MCChanged ==
    Text("t1") :> {Text("t2"), Text("t3")} @@ Text("t3") :> {Text("t1")} @@
    Second :> {Key({"ZONE"}, 2, "RSA_SHA256", "k2"), Key({"ZONE"}, 3, "RSA_SHA256", "k4")} @@
    Third :> {Key({"ZONE"}, 3, "ED25519", "k3")}
MCTimes == {<<0, 9>>, <<5, 1>>}

-----------------------------------------------------------------------------
unitVars == <<carried, held, edits>>
recordVars == <<now, rrset, meant, splitting>>
linkVars == <<link, faithful, touches>>

NoRecords == now = FirstTime /\ rrset = {} /\ meant = {} /\ splitting = FALSE
NoLink == link = <<>> /\ faithful = FALSE /\ touches = 0

\* Only the chain's story needs every world.
MCInit ==
    /\ story \in Stories
    /\ Init /\ T!Init /\ StoresInit
    /\ story # "chain" => world = CHOOSE w \in Worlds : TRUE
    /\ IF story = "records" THEN R!Init ELSE NoRecords
    /\ IF story = "link" THEN L!Init ELSE NoLink

MCNext ==
    /\ \/ story = "chain" /\ Next /\ UNCHANGED <<unitVars, recordVars, linkVars, store>>
       \/ story = "unit" /\ T!Next /\ UNCHANGED <<vars, recordVars, linkVars, store>>
       \/ story = "records" /\ R!Next /\ UNCHANGED <<vars, unitVars, linkVars, store>>
       \/ story = "link" /\ L!Next /\ UNCHANGED <<vars, unitVars, recordVars, store>>
       \/ story = "stores" /\ StoresNext /\ UNCHANGED <<vars, unitVars, recordVars, linkVars>>
    /\ UNCHANGED story

MCSpec == MCInit /\ [][MCNext]_<<vars, unitVars, recordVars, linkVars, store, story>>

OneSpelling == T!OneSpelling

OnlyTailsChange == T!OnlyTailsChange

PreviewAgrees == story = "records" => R!PreviewAgrees

DeferralPrecedesSelection == story = "records" => R!DeferralPrecedesSelection

VerifiesWhatWasSigned == story = "link" => L!VerifiesWhatWasSigned
=============================================================================
