-------------------------- MODULE MC_InputStaging --------------------------
(***************************************************************************)
(* Bindings for InputStaging: one or two keys; File objects with up to two *)
(* levels of secondaryFiles; arrays of up to two elements; every kind of   *)
(* odd secondaryFiles entry.  Both locations sanitize to the same name, so *)
(* only the running count keeps staged names apart.                        *)
(***************************************************************************)
EXTENDS InputStaging, TLC

MCLocs == {"l1", "l2"}
MCSanitize == [l \in MCLocs |-> "x"]

Odd == {[kind |-> "Directory"], [kind |-> "Dict"], [kind |-> "Scalar"]}
File0 == {FileV(l, <<>>) : l \in MCLocs}
File1 == {FileV(l, s) : l \in MCLocs,
                        s \in {<<>>} \cup {<<e>> : e \in File0 \cup Odd}
                              \cup {<<e, g>> : e \in File0, g \in File0 \cup Odd}}
File2 == {FileV(l, <<f>>) : l \in MCLocs, f \in File1}
         \cup {FileV(l, <<f, g>>) : l \in MCLocs, f \in File1, g \in File0}
Elems == File0 \cup {[kind |-> "Scalar"]}
         \cup {FileV(l, <<e>>) : l \in MCLocs, e \in File0}
Lists == {ListV(<<e>>) : e \in Elems} \cup {ListV(<<e, g>>) : e, g \in Elems}
Values == File1 \cup File2 \cup Lists \cup {[kind |-> "Scalar"]}

MCBindings ==
    {<<<<"a", v>>>> : v \in Values}
    \cup {<<<<"a", v>>, <<"b", w>>>> :
            v \in File1, w \in File0 \cup {ListV(<<f>>) : f \in File0}}
=============================================================================
