------------------------------- MODULE MCTexts -------------------------------
(***************************************************************************)
(* Texts that come in pieces: the packets of WebText on the Pico, and the  *)
(* chunks of TextTools and the text of Editor on the 65C02.  A behaviour   *)
(* is one of the three.                                                    *)
(* Answers of up to seven bytes; feeds of up to five pieces with a tag of  *)
(* three bytes; files of up to six bytes; a few keys on a small buffer.    *)
(***************************************************************************)
EXTENDS WebText, Editor

CONSTANTS MaxText, MaxPieces, MaxFile, MaxLoaded
MCTag == <<"<", "t", ">">>
MCLower == [c \in {"T"} |-> "t"]
MCEntities == [e \in {<<"&", "t", ";">>, <<"&", "l", ";">>} |-> IF e[2] = "t" THEN "T" ELSE "<"]
MCTexts == BoundedSeq({CR, LF, "x"}, MaxText)
MCPieces ==
    {MCTag, <<"<", "T", ">">>, <<"<", "/", "t", ">">>, <<"x">>, <<"t", ">">>,
     <<"&", "t", ";">>, <<"&", "l", ";">>, <<"&", "x", "x", ";">>}
MCFeeds == {f \in BoundedSeq(MCPieces, MaxPieces) : IsFeed(f)}

\* One file, and the two that DIFF compares.
Single(letters, n) == {<<s, <<>>>> : s \in BoundedSeq(letters, n)}
MCToolFiles ==
    [head |-> Single({NL, "a"}, MaxFile), tail |-> Single({NL, "a"}, MaxFile + 1),
     wc |-> Single({NL, " ", "a"}, MaxFile - 1), grep |-> Single({NL, "a", "b"}, MaxFile),
     diff |-> BoundedSeq({"a", "b"}, MaxFile - 2) \X BoundedSeq({"a", "b"}, MaxFile - 2)]
MCPatterns == {<<"a">>, <<"a", "b">>}
MCStale == {[i \in 1..LineBuf |-> c] : c \in {NUL, "a"}}

MCSearches == {<<"a">>, <<NL, NL>>}

\* Texts of lines, one that is too long for the buffer, one with CR, one with NUL.
MCEditFiles ==
    Single({NL, "a"}, MaxLoaded) \cup
    {<<s, <<>>>> : s \in {<<NL, NL, NL, NL, NL, NL, "a", "a">>, <<"a", "\r", NL, "\r", "a">>,
                         <<"a", NUL, "a">>, <<"a", NUL>>}}

NoTool ==
    /\ tool = "none" /\ tpc = "done" /\ out = <<>> /\ handles = <<>> /\ size = 0 /\ faulty = FALSE
    /\ names = {} /\ store = <<>> /\ fds = <<>> /\ up = FALSE /\ reply = <<>> /\ arg = <<>> /\ kept = <<>>
NoEditor ==
    /\ buf = [i \in Memory |-> NUL] /\ cur = 0 /\ line = 1 /\ col = 1 /\ top = 1 /\ fname = 0 /\ left = 0
NoPage ==
    /\ callback = "file" /\ pieces = <<>> /\ page = <<>> /\ at = 0 /\ header_state = 0 /\ sent = <<>>
    /\ in_title = FALSE /\ parse_buf = <<>> /\ entity_buf = <<>> /\ frames = <<>> /\ beyond = {}

MCSpec ==
    /\ \/ Init /\ NoTool /\ NoEditor
       \/ ToolInit /\ NoPage /\ NoEditor
       \/ EditInit /\ NoPage
    /\ [][(Next /\ UNCHANGED <<toolVars, editVars>>) \/ (ToolNext /\ UNCHANGED <<vars, editVars>>)
          \/ (EditNext /\ UNCHANGED vars)]_<<vars, toolVars, editVars>>
=============================================================================
