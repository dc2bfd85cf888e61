--------------------------- MODULE MCHttpExchange ---------------------------
(***************************************************************************)
(* Instances of HttpExchange for TLC.  Lines of three bytes fill an array  *)
(* of MAXLINE = 4, and a buffer of two bytes is refilled inside each line. *)
(***************************************************************************)
EXTENDS HttpExchange

(* What client.c writes. *)
ClientSend == <<"GET", "\n", "host", "\n", "\r", "\n">>

Uris ==
  {<<"/">>, <<"page">>, <<"none">>, <<"empty">>, <<"secret">>, <<"..", "x">>,
   <<"cgi">>, <<"cgi", "?", "x">>, <<"page", "cgi">>}

MCFiles ==
  [name \in {<<"/", "home.html">>, <<"home.html">>, <<"page">>, <<"empty">>,
             <<"secret">>, <<"cgi">>, <<"page", "cgi">>} |->
     CASE name = <<"empty">> -> "empty"
       [] name = <<"secret">> -> "unreadable"
       [] name = <<"cgi">> -> "program"
       [] OTHER -> "file"]

(* Others: the line ends of HTTP, another method, a line that is too long, *)
(* a request that is not complete, and a long name and a long method.      *)
MCRequests ==
  [uri : Uris, bytes : {ClientSend}, long : {FALSE}] \union
  [uri : {<<"page">>},
   bytes : {<<"GET", "\r", "\n", "\r", "\n">>,
            <<"POST", "\n", "host", "\n", "\r", "\n">>,
            <<"GET", "\n", "x", "x", "x", "\r", "\n", "\r", "\n">>,
            <<"GET", "\n", "host">>},
   long : {FALSE}] \union
  [uri : {<<"none">>},
   bytes : {ClientSend, <<"POST", "\n", "host", "\n", "\r", "\n">>},
   long : {TRUE}]
=============================================================================
