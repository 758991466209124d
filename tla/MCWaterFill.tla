----------------------------- MODULE MCWaterFill -----------------------------
(* The cases of the run of WaterFill and CachePolicies.  Nothing depends on  *)
(* which expert is which, so experts are numbered in the order of their      *)
(* first request (Canonical) and the sizes vary instead.                     *)
EXTENDS WaterFill

FourExperts == 1..4

Canonical(n) ==
    {s \in [1..n -> FourExperts] : \A i \in 1..n : s[i] <= 1 + Max({0} \cup {s[j] : j \in 1..i-1})}

AllOf(z) == [e \in FourExperts |-> z]

\* One busy layer, sizes of 1 and 2, a budget below the larger size, and two that hold a few experts.
MixedSizes ==
    {[stream |-> <<s, <<>>, <<>> >>, size |-> <<z, AllOf(1), AllOf(1)>>, budget |-> b] :
        s \in Canonical(6), z \in [FourExperts -> {1, 2}], b \in {1, 3, 4}}

\* Three layers that compete for the units, experts of one size.
EqualSizes ==
    {[stream |-> <<s1, s2, s3>>, size |-> <<AllOf(2), AllOf(2), AllOf(2)>>, budget |-> 4] :
        s1 \in Canonical(5), s2 \in Canonical(3), s3 \in Canonical(3)}

SomeCases == MixedSizes \cup EqualSizes
=============================================================================
