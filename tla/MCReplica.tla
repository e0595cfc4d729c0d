------------------------------ MODULE MCReplica ------------------------------
EXTENDS Replica, TLC

\* client.cc as it is.
MainScripts == {ClientMain}

\* Other users of the interface: exchanges repeated and mixed before a write.
Begin  == <<"construct", "wait_established", "init_replica">>
Finish == <<"disconnect", "join">>
WriteIt == <<"set_head", "write", "spin">>
CallScripts == {Begin \o <<"init_replica">> \o WriteIt \o Finish,
                Begin \o WriteIt \o <<"init_replica">> \o WriteIt \o Finish,
                Begin \o WriteIt \o <<"close_replica", "init_replica">> \o Finish,
                Begin \o <<"close_replica">> \o WriteIt \o Finish}

AllScripts == MainScripts \cup CallScripts

\* The replica is opened once; after that it is closed, or not.
OnceScripts == {ClientMain, Begin \o <<"close_replica">> \o WriteIt \o Finish}

SymmetricOps == Permutations(Ops)
=============================================================================
