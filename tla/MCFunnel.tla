------------------------------ MODULE MCFunnel ------------------------------
EXTENDS Funnel

\* Two stays that overlap in one night.
TwoStays == {[from |-> 0, to |-> 2], [from |-> 1, to |-> 3]}

\* The night between the end of the one and the end of the other.
LastNight == {[from |-> 2, to |-> 3]}

=============================================================================
