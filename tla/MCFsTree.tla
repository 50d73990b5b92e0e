------------------------------ MODULE MCFsTree ------------------------------
EXTENDS FsTree, TLC

C(op, path, new) == [op |-> op, path |-> path, new |-> new]

Calls ==
  [p \in Proc |->
    IF p = InitProc
    THEN {C("mkdir", <<"d">>, <<>>), C("create", <<"/", "d", "f">>, <<>>),
          C("link", <<"/", "d", "f">>, <<"f">>), C("mknod", <<"f">>, <<>>)}
    ELSE {C("unlink", <<"d">>, <<>>), C("unlink", <<"/", "d", "f">>, <<>>),
          C("chdir", <<"/", "d">>, <<>>), C("open", <<"d">>, <<>>)}]

=============================================================================
