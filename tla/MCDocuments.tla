---------------------------- MODULE MCDocuments ----------------------------
(***************************************************************************)
(* A directory and a browser tab. The user's document is 1; 2 names 3 and, *)
(* in a circle, 1; 3 names nothing.                                        *)
(***************************************************************************)
EXTENDS Documents

MCLower ==
    [l \in {"", "ex", "org", "7"} |-> l] @@ "Ex" :> "ex"

MCALabels == MCLower @@ "umlaut" :> "ex"

MCDotted ==
    "Ex.org" :> <<"Ex", "org">> @@ "ex.org." :> <<"ex", "org", "">> @@ "ex.org" :> <<"ex", "org">> @@
    "org" :> <<"org">> @@ "ex.7" :> <<"ex", "7">> @@ "org.ex" :> <<"org", "ex">>

Key32(d, canonical) == [length |-> 32, doc |-> d, canonical |-> canonical]

MCPayload ==
    "K1" :> Key32(1, TRUE) @@ "k1" :> Key32(1, FALSE) @@ "K2" :> Key32(2, TRUE) @@
    "K3" :> Key32(3, TRUE) @@ "K4" :> Key32(4, TRUE) @@
    "uuid" :> [length |-> 16, doc |-> 1, canonical |-> TRUE]

MCLibrary ==
    2 :> Put(Put(Blank, Root(<<"b">>), Reference(3), 6), Root(<<"a">>), Reference(1), 7) @@
    3 :> Blank

MCZone ==
    <<"ex", "org">> :> {[doc |-> 2, serial |-> 2], [doc |-> 3, serial |-> 1]} @@
    <<"org", "ex">> :> {[doc |-> 2, serial |-> 2], [doc |-> 3, serial |-> 2]}

Text(sigil, parts) == [sigil |-> sigil, parts |-> parts]

MCPath == {<<"a">>, <<"a", "b">>}

MCPathText == {<<"a">>, <<"">>, <<".well-known", "x">>}

MCAnchorText == {Text("", <<"K1">>), Text("automerge:", <<"K3">>), Text("", <<"k1">>)}

MCNameText ==
    {Text("~", <<"", "a", "b">>), Text("~", <<"", "a", "b", "b">>), Text("~", <<"a">>),
     Text("automerge:", <<"K2", "b">>), Text("automerge:", <<"uuid">>),
     Text("@", <<"Ex.org", "a", "a", "b">>), Text("@", <<"org.ex", "b">>)}

MCForeign ==
    [names |-> {<<Root(<<"a">>), Other>>, <<Root(<<"a", "">>), Reference(3)>>},
     decisions |-> {<<DecisionsKey, Other>>},
     certificates |-> {<<CertificatesKey, Other>>, <<CertificatesKey, Reference(3)>>}]

MCArriving ==
    {[doc |-> 2, carriage |-> "Genuine"], [doc |-> 3, carriage |-> "Broken"]}

MCHostText == {<<"ex", "org">>, <<"Ex", "org">>}

MCEntry == {[document |-> 2, cited |-> {1}], [document |-> 3, cited |-> {}]}

\* Units 1 and 2 are one certificate with two chains, 3 another, 4 does not decode.
MCSignedRegion == 1 :> "first" @@ 2 :> "first" @@ 3 :> "second"
=============================================================================
