--------------------------- MODULE MCDurableObject ---------------------------
EXTENDS DurableObject, TLC

\* Every clock tells the same time.
NoOffset == [w \in Instances |-> 0]

\* The second instance's clock is as far ahead as the skew allowance covers.
CONSTANT Ahead
OneAhead == [w \in Instances |-> IF w = Ahead THEN SkewAllowance ELSE 0]

Symmetric == Permutations(Instances)

\* What TLC tells states apart by.  Two states it takes for one differ only in
\* what no later step and no property reads: the memory of a handle that has
\* ended, the key of an operation that is over and was not reported as a timeout,
\* an answer other than a timeout.
Told(w) == IF job[w] = "none" /\ result[w] # "timeout"
             THEN <<>> ELSE <<key[w], result[w] = "timeout">>

Remembered(w) ==
    IF phase[w] \in Ended
      THEN <<phase[w] = "closed", forced[w], phase[w] = "closed" /\ fenced[w],
             committed[w], executed[w], Told(w)>>
      ELSE <<phase[w], forced[w], cache[w], fenced[w], deadline[w], local[w], buffer[w],
             executed[w], committed[w], job[w], at[w], lockq[w], attempts[w], doubt[w],
             written[w], Told(w)>>

Distinguished ==
    <<storeVars, now, unproven, [w \in Instances |-> Remembered(w)]>>

=============================================================================
