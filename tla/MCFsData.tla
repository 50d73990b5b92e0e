------------------------------ MODULE MCFsData ------------------------------
EXTENDS FsData, TLC

Bytes == [p \in Proc |-> IF p = CHOOSE q \in Proc : TRUE THEN 1 ELSE 2]

Open == {<<"p1", "x1", 7>>, <<"p2", "x1", 3>>, <<"p2", "x2", 5>>}
=============================================================================
