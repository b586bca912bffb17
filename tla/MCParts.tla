------------------------------ MODULE MCParts ------------------------------
(***************************************************************************)
(* The sequential parts of the library and of udpsender for TLC: one run   *)
(* chooses a part in its initial state and checks it by itself.            *)
(*                                                                         *)
(* 12 items are the fewest of which a removal from the tree rotates twice  *)
(* on its way up; two of them may have the same key.  Of the heap's blocks *)
(* two can be spare at a cleanup while a third is in use.  The prefix of a *)
(* network may end in, between and behind the bytes.                       *)
(***************************************************************************)
EXTENDS MemoryHeap, AVLTree, MemoryGroup, SenderSetup, SampleSensorData, IPNetwork, Array, String

CONSTANTS Keys, Names, NextKey

VARIABLES
    part,
    assoc, promised

KeyedItems == [key : 1..Keys, id : {1}] \cup [key : {4}, id : {2}]

\* Arrays that are inserted or added: with and without empty elements.
OtherArrays == {<<1>>, <<0>>, <<2, 0>>, <<0, 1, 1>>}

\* Ranges with a step of 0, with one that is not a divisor, and up to the end
\* of the numbers; files that begin and end with an address, or have none.
SomeRanges == {<<1, 4, 1>>, <<0, 5, 2>>, <<2, 3, 0>>, <<4, 3, 1>>, <<6, 3, 1>>,
               <<5, MaxUInt64, 1>>, <<0, MaxUInt64, 3>>, <<5, 6, 3>>}
SomeFiles == {<<>>, <<"comment", "empty">>, <<"address", "address">>,
                <<"address", "comment", "address", "empty", "address">>}

Name == CHOOSE n \in Names : TRUE

Line(kind, path, value) == [kind |-> kind, path |-> path, text |-> value]

\* Sections, pairs with and without one, and a text that comes twice.
Configurations ==
    {<<Line("pair", <<0>>, <<1>>), Line("other", <<>>, <<>>), Line("section", <<Name>>, <<>>),
       Line("pair", <<NextKey>>, <<1>>), Line("pair", <<0>>, <<>>)>>,
     <<Line("pair", <<Name>>, <<1>>), Line("pair", <<Name>>, <<1>>)>>}

Assocs == INSTANCE AssocArray WITH
    Paths <- {<<>>, <<Name>>, <<0>>, <<NextKey>>, <<Name, NextKey>>, <<Name, 1>>, <<NextKey, Name>>},
    Texts <- {<<1>>}, Concat <- <<2>>, Documents <- Configurations, MaxKeys <- 3

\* A buffer that is full after few letters, and the least room behind a text
\* with which trim() stays in its buffer.
StringTexts == {<<>>, <<2>>, <<3, 3>>, <<1, 3>>}

Init ==
    /\ part \in {"heap", "tree", "array", "setup", "assoc", "group", "sensor", "string", "network"}
    /\ HeapInit /\ TreeInit /\ ArrayInit
    /\ phase = "sources" /\ lineno = 1 /\ SourceIpList = <<>> /\ si = 1 /\ source = <<>> /\ rates = <<>>
    /\ IF part = "setup" THEN SetupInit
       ELSE range = <<0, 0, 0>> /\ i = 0 /\ file = <<>> /\ ThreadCount = 1
    /\ part # "tree" => ~dupes
    /\ Assocs!AssocInit /\ GroupInit
    /\ SensorInit /\ (part # "sensor" => \A c \in DOMAIN device : device[c] = 0)
    /\ StringInit /\ NetworkInit

cvars == <<assoc, promised>>
netreevars == <<addr, net, given>>
others == <<cvars, gvars, sensorvars, strvars, netreevars>>

NextHeap  == part = "heap" /\ HeapNext /\ UNCHANGED <<treevars, avars, svars, others>>
\* A tree in which equal keys are refused is no other tree; a small one shows it.
NextTree ==
    /\ part = "tree" /\ TreeNext /\ (dupes \/ Cardinality(members') <= MaxIterated)
    /\ UNCHANGED <<hvars, avars, svars, others>>
NextArray == part = "array" /\ ArrayNext /\ UNCHANGED <<hvars, treevars, svars, others>>
NextSetup == part = "setup" /\ SetupNext /\ UNCHANGED <<hvars, treevars, avars, others>>
NextAssoc ==
    /\ part = "assoc" /\ Assocs!AssocNext
    /\ UNCHANGED <<hvars, treevars, avars, svars, gvars, sensorvars, strvars, netreevars>>
NextGroup ==
    /\ part = "group" /\ GroupNext
    /\ UNCHANGED <<hvars, treevars, avars, svars, cvars, sensorvars, strvars, netreevars>>
NextSensor ==
    /\ part = "sensor" /\ SensorNext
    /\ UNCHANGED <<hvars, treevars, avars, svars, cvars, gvars, strvars, netreevars>>
NextString ==
    /\ part = "string" /\ StringNext
    /\ UNCHANGED <<hvars, treevars, avars, svars, cvars, gvars, sensorvars, netreevars>>
NextNetwork ==
    /\ part = "network" /\ NetworkNext
    /\ UNCHANGED <<hvars, treevars, avars, svars, cvars, gvars, sensorvars, strvars>>

Next ==
    /\ UNCHANGED part
    /\ NextHeap \/ NextTree \/ NextArray \/ NextSetup \/ NextAssoc \/ NextGroup \/ NextSensor
       \/ NextString \/ NextNetwork

Spec == Init /\ [][Next]_<<part, hvars, treevars, avars, svars, others>>

\* The property of AssocArray.
HoldsPromised == Assocs!HoldsPromised

=============================================================================
