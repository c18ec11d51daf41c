------------------------------ MODULE MCBrowser -----------------------------
(***************************************************************************)
(* An instance of Browser for TLC: two servers, one of which a restarted   *)
(* daemon no longer has, and three requests in states that a daemon reports*)
(* together.                                                               *)
(***************************************************************************)
EXTENDS Browser

MCBackends == <<"a", "b">>
MCFleets == {{"a", "b"}, {"b"}}
MCSizes == {<<120, 16>>}

Row(status, at) == [status |-> status, at |-> at]

\* Waiting, running, finished and cancelled requests, fewer and fewer of them.
MCSnapshots ==
    {<<Row("running", 2), Row("completed", 1), Row("pending", 1)>>,
     <<Row("completed", 1), Row("failed", 2), Row("running", 2)>>,
     <<Row("completed", 2), Row("completed", 1), Row("failed", 1)>>,
     <<Row("completed", 2), Row("failed", 2), Row("cancelled", 2)>>,
     <<Row("completed", 1), Row("failed", 2)>>,
     << >>}

=============================================================================
