------------------------------ MODULE MCChain ------------------------------
(***************************************************************************)
(* An owner c.e.o in a zone that may be cut at c.e, and aliases to a name  *)
(* under a deeper cut of the same zone, c.e.p.b, and to another branch,    *)
(* n.b.                                                                    *)
(***************************************************************************)
EXTENDS ChainCourier, TLC

MCOwner == <<"c", "e", "o">>
Below == <<"c", "e", "p", "b">>
Beside == <<"n", "b">>

Domain == <<"c", "e">>
Pages == <<"c", "e", "p">>
Other == <<"n">>

Good == [ds |-> TRUE, signed |-> TRUE]
Island == [ds |-> FALSE, signed |-> TRUE]
Plain == [ds |-> FALSE, signed |-> FALSE]
Broken == [ds |-> TRUE, signed |-> FALSE]

\* A zone is cut in one of some ways, or is not cut.
Cuts(z, ways) == {<<>>} \cup {z :> way : way \in ways}

Aliases == {
    <<>>,
    MCOwner :> Below,
    MCOwner :> Beside,
    MCOwner :> Pages,
    MCOwner :> MCOwner,
    MCOwner :> Below @@ Below :> Beside,
    MCOwner :> Beside @@ Beside :> Below,
    MCOwner :> Beside @@ Beside :> MCOwner,
    MCOwner :> Below @@ Below :> Beside @@ Beside :> Domain}

Ends(alias) == {MCOwner, Below, Beside, Pages, Domain} \ DOMAIN alias

\* The windows of a zone's two keys.
Always == 1 :> <<0, 9>> @@ 2 :> <<0, 9>>
Early == 1 :> <<0, 3>> @@ 2 :> <<1, 4>>
Late == 1 :> <<3, 9>> @@ 2 :> <<4, 9>>
Latest == 1 :> <<5, 9>> @@ 2 :> <<6, 9>>

WindowOf(early, late) ==
    [z \in {Root, <<"c">>, Domain, Pages, Other} |->
        IF z = Root THEN Always ELSE IF z = Other THEN late ELSE early]

Tree(d, p, o) == Root :> Good @@ <<"c">> :> Good @@ d @@ p @@ o

WorldOf(cut, alias, wild, late, st) ==
    [cut |-> cut, alias |-> alias, txt |-> Ends(alias), wild |-> wild,
     window |-> WindowOf(Early, late), stage |-> [z \in DOMAIN cut |-> st]]

\* Every way to cut and to alias.
Shapes ==
    {WorldOf(Tree(d, p, o), alias, {}, Always, "New") :
        d \in Cuts(Domain, {Good, Island, Plain, Broken}),
        p \in Cuts(Pages, {Good, Plain}),
        o \in Cuts(Other, {Good, Island}), alias \in Aliases}

Secured == {Tree(Domain :> Good, p, o) : p \in Cuts(Pages, {Good}), o \in Cuts(Other, {Good})}

\* Branches whose windows overlap at one end, or not at all.
Windowed ==
    {WorldOf(cut, alias, {}, late, "New") :
        cut \in Secured, alias \in Aliases, late \in {Late, Latest}}

\* Zones whose keys roll while the chain is fetched.
Rolled ==
    {WorldOf(cut, alias, {}, Always, st) :
        cut \in Secured, alias \in Aliases, st \in {"Old", "Rolling"}}

\* A wildcard that stands in for the owner, or for what it is an alias of.
Synthesized ==
    {WorldOf(cut, alias, {n}, Always, "New") :
        cut \in Secured, alias \in Aliases, n \in {MCOwner, Below, Beside}}

MCWorlds == Shapes \cup Windowed \cup Rolled \cup Synthesized
=============================================================================
