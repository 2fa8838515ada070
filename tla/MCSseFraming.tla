----------------------------- MODULE MCSseFraming -----------------------------
(* Streams of one or two frames, of every kind the parser tells apart, with *)
(* either line end; the last frame may lack its blank line or even the end  *)
(* of its last line.                                                        *)
EXTENDS SseFraming

MCFrames == {<<<<"data", "x">>>>,
             <<<<"data", "u", "v">>>>,
             <<<<"data", "sp", "x">>, <<"data", "y">>>>,
             <<<<"event", "x">>, <<"data", "sp", "y">>>>,
             <<<<"colon", "x">>, <<"data", "sp">>>>,
             <<<<"data", "done">>>>}

Ends == {<<"lf">>, <<"cr", "lf">>}

\* The lines of a frame, each but the last one followed by end
Text(lines, end) == FoldLeft(LAMBDA acc, l : acc \o end \o l, Head(lines), Tail(lines))

Blank(lines, end) == Text(lines, end) \o end \o end

MCStreams ==
  UNION {{Blank(f, end) \o Text(g, end), Text(f, end) \o end,
          Blank(f, end) \o Blank(g, end)} : f, g \in MCFrames, end \in Ends}

\* The hypotheses of the theorems about what a stream means
ASSUME StreamsArePlain ==
  \A s \in Streams : Plain(Append(Normalise(s), "lf"))
ASSUME StreamsAreWhole == \A s \in Streams : Whole(s)

\* Two events, each in a frame of its own
MCTwoEvents ==
  {Blank(<<<<"data", "x">>>>, end) \o Blank(<<<<"data", "sp", "y">>>>, end) : end \in Ends}
=============================================================================
