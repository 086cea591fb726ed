---------------------------- MODULE MCNetRequest ----------------------------
(***************************************************************************)
(* NetRequest for TLC.  An answer is a header and up to three texts.       *)
(* Downloads are shorter than http_buf, fill it, and are too long for it;  *)
(* the file that is sent is longer than it; a title may be empty.  A base  *)
(* of 2 makes a frame of two bytes use both bytes of its length.           *)
(***************************************************************************)
EXTENDS NetRequest

Http == {"get", "post", "download"}
ServerAnswers ==
    [k \in AllKinds |->
        CASE k = "news" -> {<< <<0>> >>, << <<0>>, <<7>> >>, << <<0>>, <<1, 2>>, <<>>, <<3, 4, 5>> >>}
          [] k = "time" -> {<< <<1>>, <<2>> >>}
          [] k = "post" -> {<< <<0>> >>, << <<0>>, <<1>> >>}
          [] k = "download" -> {<< <<0>> >>, << <<0>>, <<1>> >>, << <<0>>, <<1>>, <<2>> >>}
          [] OTHER -> {<< <<0>> >>, << <<0>>, <<1>>, <<2>>, <<3>> >>}]
ThreeBytes == <<7, 8, 9>>

\* What goes wrong in the run.  What different commands share is not told
\* apart for each of them.
Mishaps ==
    ({"get", "download"} \X {"dns_error", "refuse", "connect_timeout", "reset", "stall", "late", "early"})
    \cup ({"get"} \X {"open", "dns_fail", "dns_timeout", "write", "close", "stray"})
    \cup ({"post"} \X {"open", "refuse", "connect_timeout", "reset", "stall", "send", "read", "early"})
    \cup ({"time"} \X {"dns_error", "dns_fail", "dns_timeout", "stall", "stray"})
    \cup (Streams \X {"dns_error", "dns_fail", "no_pcb", "refuse", "connect_timeout", "reset",
                      "stall", "late", "early"})

\* The server is there but does not accept the connection.
Unreachable == Streams \X {"refuse", "connect_timeout"}
=============================================================================
