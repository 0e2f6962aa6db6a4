----------------------------- MODULE GrokImages -----------------------------
(***************************************************************************)
(* Pictures made by grok.com: the loop of upstream/imagine.go that reads   *)
(* the frames of a WebSocket until it has the pictures asked for, and the  *)
(* result of the uploads that precede an image edit (image_edit.go).       *)
(*                                                                         *)
(* A picture is known by its id.  Its data and its last status come in     *)
(* frames of their own, in any order and perhaps more than once.  A frame  *)
(* that is not text, not JSON, without an id or about progress changes     *)
(* nothing and is left out.                                                *)
(***************************************************************************)
EXTENDS EventParser

\* readImagineEvents before its first frame, and no such reader.
NewImagine(requested) == [requested |-> requested, collected |-> 0, pictured |-> {}, completed |-> {}]
NoImagine == NewImagine(0)

\* What a frame makes of the reader g: its state, the events it sends, and whether it returns.
Step(g, events, over) == [g |-> IF over THEN NewImagine(g.requested) ELSE g, events |-> events, over |-> over]

\* The frame with the data of a picture.
ImageFrame(g, id) == Step([g EXCEPT !.pictured = @ \cup {id}], <<>>, FALSE)

\* Mutant: a status that is repeated counts again.
CompletedFrameAgain(g, id, moderated) ==
  IF moderated \/ id \notin g.pictured THEN Step([g EXCEPT !.completed = @ \cup {id}], <<>>, FALSE)
  ELSE Step([g EXCEPT !.completed = @ \cup {id}, !.collected = @ + 1],
            <<Picture(id)>> \o (IF g.collected + 1 = g.requested THEN <<Event("done")>> ELSE <<>>),
            g.collected + 1 = g.requested)

(* The frame that says a picture is completed: only the first one counts, and it counts for
   nothing when the picture was moderated or its data has not come yet. *)
CompletedFrame(g, id, moderated) ==
  LET seen == [g EXCEPT !.completed = @ \cup {id}]
      last == g.collected + 1 = g.requested
  IN  IF id \in g.completed \/ moderated \/ id \notin g.pictured THEN Step(seen, <<>>, FALSE)
      ELSE Step([seen EXCEPT !.collected = @ + 1],
                <<Picture(id)>> \o (IF last THEN <<Event("done")>> ELSE <<>>), last)

ErrorFrame(g) == Step(g, <<Event("error")>>, TRUE)

\* The connection is closed by its peer, or breaks: some pictures are an answer, but only if closed.
ReadError(g, closed) ==
  Step(g, <<Event(IF closed /\ g.collected > 0 THEN "done" ELSE "error")>>, TRUE)

\* uploadEditReferences joins its goroutines: the first failure in the order of the references counts.
Joined(uploads) ==
  LET bad == {i \in DOMAIN uploads : uploads[i] # "url"}
  IN  IF bad = {} THEN "post" ELSE IF uploads[Min(bad)] = "http" THEN "refused" ELSE "broken"
=============================================================================
