---------------------------- MODULE MCProxyConn ----------------------------
(* The configurations TLC checks ProxyConn with.                           *)
EXTENDS ProxyConn

Methods3 == {"GET", "HEAD", "CONNECT"}

(* The defaults of the command, with everything optional turned on.        *)
Default == [methods |-> Methods3, timeouts |-> {"idle", "header"}, mitm |-> TRUE,
            h2 |-> TRUE, modifiersFail |-> TRUE, connectBody |-> FALSE, maxRequests |-> 3]

(* Every timeout is set.                                                   *)
Timed == [Default EXCEPT !.timeouts = {"idle", "read", "header", "write", "tls"},
                         !.maxRequests = 2]

(* No option, one request.                                                 *)
Simple == [Default EXCEPT !.mitm = FALSE, !.h2 = FALSE, !.modifiersFail = FALSE,
                          !.maxRequests = 1]

(* A CONNECT comes with a Content-Length or a Transfer-Encoding.           *)
Declared == [Default EXCEPT !.methods = {"GET", "CONNECT"}, !.connectBody = TRUE,
                            !.modifiersFail = FALSE, !.maxRequests = 2]

MCConfigs == {Default, Timed, Declared}

MCSimple == {Simple}

=============================================================================
