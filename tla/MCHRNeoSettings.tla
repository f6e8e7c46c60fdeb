-------------------------- MODULE MCHRNeoSettings --------------------------
(* Values of the constants of HRNeoSettings for model checking. *)
EXTENDS HRNeoSettings, TLC

CONSTANTS MaxLines

McKeyOrder ==
  <<"autoStart", "IpsetTimeout", "log", "GeoIPFile", "PolicyOrder", "l7QueueNum", "l7WanInterface">>
McKind == [autoStart |-> "bool", IpsetTimeout |-> "int", log |-> "mode", GeoIPFile |-> "list",
           PolicyOrder |-> "order", l7QueueNum |-> "positive", l7WanInterface |-> "text"]
McOtherKeys == <<"Future", "Other">>
(* A line break is written | here. *)
McLineBroken == {"w|Other=w", "x|", "|autoStart=x"}
McWords ==
  {"", "w", " w", "x", "w,x", "off", "true", "false", "autoStart=x"} \cup McLineBroken
McTrim == [v \in McWords |-> CASE v = " w" -> "w"
                              [] v = "x|" -> "x"
                              [] v = "|autoStart=x" -> "autoStart=x"
                              [] OTHER -> v]
McPieces ==
  [v \in McLineBroken |->
     CASE v = "w|Other=w" -> [first |-> "w", rest |-> <<[key |-> "Other", val |-> "w"]>>]
       [] v = "x|" -> [first |-> "x", rest |-> <<Note>>]
       [] v = "|autoStart=x" -> [first |-> "", rest |-> <<[key |-> "autoStart", val |-> "x"]>>]]
McDefault == [autoStart |-> <<TRUE>>, IpsetTimeout |-> <<2>>, log |-> <<"off">>, GeoIPFile |-> <<<<>>>>,
              PolicyOrder |-> <<<<>>>>, l7QueueNum |-> <<1>>, l7WanInterface |-> <<"">>]

(* Bodies that name at most two settings, each with a value from here. *)
Given == [autoStart |-> {TRUE, FALSE}, IpsetTimeout |-> {-1, 0, 3}, log |-> {"off", "x"},
          GeoIPFile |-> {<<>>, <<"x", "x">>, <<" w", "x">>, <<"">>, <<"x", "w|Other=w">>,
                         <<"|autoStart=x">>},
          PolicyOrder |-> {<<>>, <<"x", " w">>, <<"w,x">>, <<"x|">>}, l7QueueNum |-> {0, 1},
          l7WanInterface |-> {"", " w", "w|Other=w"}]
Two(j, k) == {[i \in Keys |-> IF i = j THEN <<v>> ELSE IF i = k THEN <<w>> ELSE <<>>] :
                v \in Given[j], w \in Given[k]}
McPatches == UNION {Two(j, k) : j, k \in Keys} \cup {Empty}

(* What lines may say, what does not parse and what does not fit included. *)
InLines == [autoStart |-> {"x"}, IpsetTimeout |-> {4, NotANumber}, log |-> {"x"},
            GeoIPFile |-> {"", "x"}, PolicyOrder |-> {<<"w", "", "x">>, <<>>},
            l7QueueNum |-> {NotANumber}, l7WanInterface |-> {" w"}, Future |-> {" w", "x"},
            Other |-> {"x"}]
McLines == {Note, [key |-> NoName, val |-> "x"]}
             \cup UNION {{[key |-> k, val |-> v] : v \in InLines[k]} : k \in DOMAIN InLines}

(* A text whose last line is empty is one that ends in a newline. *)
McInitTexts ==
  {NoFile, [lines |-> <<>>, nl |-> FALSE]}
    \cup {[lines |-> ls, nl |-> TRUE] : ls \in BoundedSeq(McLines, MaxLines) \ {<<>>}}
    \cup {[lines |-> ls, nl |-> FALSE] : ls \in BoundedSeq(McLines \ {Note}, 1) \ {<<>>}}

McOrders == {<<>>, <<"x">>, <<" w", "x">>, <<"w", " w">>, <<"">>, <<"w,x">>}
=============================================================================
