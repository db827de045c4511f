------------------------------ MODULE MCSerde ------------------------------
(* Values of the constants of Serde for TLC: an object for each way of      *)
(* serializing, and nested ones.  Resources are named by strings.           *)
EXTENDS Serde, SequencesExt

MCBase == [p \in {"a", "b"} |-> IF p = "a" THEN 5 ELSE 11]
MCPlaces == {-3, 2, 3, 4}

Fd == [kind |-> "resource", resource |-> "file"]
Stream == [kind |-> "resource", resource |-> "stream"]
Option(t) == [kind |-> "option", of |-> t]
Either(t, e) == [kind |-> "result", okType |-> t, errType |-> e]
Array(k, t) == [kind |-> "array", len |-> k, of |-> t]
Slice(t) == [kind |-> "slice", of |-> t]
DynType == [kind |-> "dyn"]
Boxed(place) == [kind |-> "box", heap |-> place]

\* A list, which is recursive by way of its box.
List == Struct(<<Pod(1), Option(Boxed(2))>>)
End(b) == <<<<b>>, [some |-> FALSE]>>
Link(b, rest) == <<<<b>>, [some |-> TRUE, of |-> rest]>>

MCOnHeap == (-3 :> Pod(2)) @@ (2 :> List) @@ (3 :> Struct(<<Fd, Pod(2)>>)) @@ (4 :> Pod(1))
MCHeapOf == (-3 :> 4) @@ (2 :> 3)

MCCatalogue == <<
    [type |-> Pod(0), value |-> <<>>],
    [type |-> Pod(3), value |-> <<7, 8, 9>>],
    [type |-> Fd, value |-> "f1"],
    [type |-> Struct(<<Stream, Pod(1), Fd, Stream>>), value |-> <<"s1", <<4>>, "f2", "s2">>],
    [type |-> Option(Fd), value |-> [some |-> TRUE, of |-> "f3"]],
    [type |-> Option(Vec(Pod(1))), value |-> [some |-> FALSE]],
    [type |-> Either(Pod(1), Fd), value |-> [ok |-> FALSE, of |-> "f4"]],
    [type |-> Either(Pod(2), Fd), value |-> [ok |-> TRUE, of |-> <<1, 2>>]],
    [type |-> Vec(Vec(Fd)), value |-> <<<<"f5">>, <<>>, <<"f6", "f7">>>>],
    [type |-> Vec(Struct(<<Pod(1), Stream>>)),
     value |-> <<<<<<2>>, "s3">>, <<<<1>>, "s4">>>>],
    [type |-> Tuple(<<Pod(1), Stream, Pod(2)>>), value |-> <<<<1>>, "s5", <<2, 3>>>>],
    [type |-> [kind |-> "map", key |-> [kind |-> "text"], val |-> Option(Fd)],
     value |-> <<<<<<5, 6>>, [some |-> TRUE, of |-> "f11"]>>, <<<<>>, [some |-> FALSE]>>>>],
    [type |-> Array(2, Struct(<<Fd, Pod(1)>>)), value |-> <<<<"f8", <<0>>>>, <<"f9", <<1>>>>>>],
    [type |-> Array(3, Pod(2)), value |-> <<<<1, 2>>, <<3, 4>>, <<5, 6>>>>],
    [type |-> Slice(Option(Pod(1))), value |-> <<[some |-> FALSE], [some |-> TRUE, of |-> <<1>>]>>],
    [type |-> DynType, value |-> [vtable |-> -3, of |-> <<6>>]],
    [type |-> DynType, value |-> [vtable |-> 2, of |-> <<"f10", <<2, 3>>>>]],
    [type |-> Struct(<<[kind |-> "static"], Pod(1)>>), value |-> <<2, <<1>>>>],
    [type |-> Boxed(-3), value |-> <<3, 1>>],
    [type |-> List, value |-> Link(7, Link(8, End(9)))],
    [type |-> [kind |-> "systemtime"], value |-> -3],
    [type |-> Struct(<<[kind |-> "systemtime"], DurationType>>), value |-> <<4, 2>>],
    [type |-> Struct(<<>>), value |-> <<>>] >>

\* The catalogue, and the parts of its objects, which are nested nine deep.
PartsOf(objects) ==
    FlattenSeq([i \in 1..Len(objects) |-> Parts(objects[i].type, objects[i].value)])
Parts1 == PartsOf(MCCatalogue)
Parts2 == PartsOf(Parts1)
Parts3 == PartsOf(Parts2)
Parts4 == PartsOf(Parts3)
Parts5 == PartsOf(Parts4)
Parts6 == PartsOf(Parts5)
Parts7 == PartsOf(Parts6)
Parts8 == PartsOf(Parts7)

MCSent == 1..Len(MCCatalogue)
MCObjects ==
    MCCatalogue \o Parts1 \o Parts2 \o Parts3 \o Parts4 \o Parts5 \o Parts6 \o Parts7 \o Parts8
MCResources == {"f1", "f2", "f3", "f4", "f5", "f6", "f7", "f8", "f9", "f10", "f11",
                "s1", "s2", "s3", "s4", "s5"}
=============================================================================
