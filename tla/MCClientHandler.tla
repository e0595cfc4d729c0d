--------------------------- MODULE MCClientHandler ---------------------------
EXTENDS ClientHandler, TLC

\* client.cc as it is.
MainScripts == {ClientMain}

\* Other users of the interface: a second exchange, and a write nobody waits for.
Begin == <<"construct", "wait_established", "init_replica">>
CallScripts == {Begin \o <<"init_replica", "disconnect", "join">>,
                Begin \o <<"close_replica", "disconnect", "join">>,
                Begin \o <<"set_head", "write", "disconnect", "join">>}

AllScripts == MainScripts \cup CallScripts

SymmetricOps == Permutations(Ops)
=============================================================================
