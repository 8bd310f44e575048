------------------------------- MODULE MCHttpd -------------------------------
EXTENDS Httpd, TLC

CONSTANTS p1, p2
MCPeers == {p1, p2}

MCTable == <<[urls |-> {"socket"}, cgi |-> "socket"], [urls |-> {"upload"}, cgi |-> "upload"],
             [urls |-> {"file", "full", "portal"}, cgi |-> "file"], [urls |-> {"portal"}, cgi |-> "page"],
             [urls |-> {"nothing"}, cgi |-> "other"]>>
Asking(url, keep, body) == [url |-> url, host |-> "own", post |-> body > 0, keep |-> keep, body |-> body,
                            upgrade |-> url = "socket"]
MCRequests ==
    p1 :> {Asking("socket", TRUE, 0), [Asking("socket", TRUE, 0) EXCEPT !.upgrade = FALSE],
           Asking("upload", TRUE, 3), Asking("file", FALSE, 0),
           Asking("full", TRUE, 0), Asking("full", FALSE, 0),
           Asking("portal", TRUE, 0), Asking("portal", FALSE, 2),
           [Asking("nothing", TRUE, 0) EXCEPT !.host = "other"],
           [Asking("nothing", FALSE, 1) EXCEPT !.host = "other"]} @@
    p2 :> {Asking("socket", TRUE, 0)}

MCMaxRequests == p1 :> 2 @@ p2 :> 1
MCMaxFrames == p1 :> 1 @@ p2 :> 2
=============================================================================
