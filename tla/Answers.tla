------------------------------ MODULE Answers -------------------------------
(***************************************************************************)
(* The ResponseWriters an answer is written through.  Each middleware may  *)
(* wrap the one it was given: the summary to note the status and the size, *)
(* the integrity to hold the body back until it can be signed, the         *)
(* encoding to compress it.  The last two override only Write:             *)
(* WriteHeader and Header go through to net/http, which takes a copy of    *)
(* the header when the status line is written, at the latest with the      *)
(* first byte of the body.  No state: an answer is a record.               *)
(*                                                                         *)
(* A stack of writers is a sequence of "log", "sign", "zip", the innermost *)
(* last; chunks of a body are documents, plain or deflated, and the end of *)
(* a gzip stream.                                                          *)
(***************************************************************************)
EXTENDS Adapters

\* A signature is the list of the values of its header, as http.Header has it.
NoHeader == [type |-> "", encoding |-> "", sum |-> <<>>]

NoAnswer ==
    [header |-> NoHeader,   \* Header(), shared by all the writers
     status |-> 0,          \* the status line; 0: not written
     sent   |-> NoHeader,   \* the header as it left with the status line
     body   |-> <<>>,       \* the chunks that have left
     buffer |-> <<>>,       \* signedWriter.bodyBuffer
     zip    |-> "open",     \* compressibleWriter.compress, "open" for nil
     logged |-> 200]        \* loggingResponseWriter.responseStatusCode

Chunk(what, doc) == [what |-> what, doc |-> doc]
GzipEnd == Chunk("end", Nothing)

----------------------------------------------------------------------------
\* A second status is ignored by net/http, and noted all the same.
WriteHeader(a, writers, code) ==
    LET b == IF a.status = 0 THEN [a EXCEPT !.status = code, !.sent = a.header] ELSE a
    IN  IF Contains(writers, "log") THEN [b EXCEPT !.logged = code] ELSE b

\* Write of net/http.
Leave(a, chunks) ==
    [WriteHeader(a, <<>>, 200) EXCEPT !.body = @ \o chunks]

\* compressibleWriter.Write decides at the first call whether to compress.
Decide(a) ==
    IF a.zip # "open" THEN a
    ELSE IF a.header.type \in {"application/json", "text/html"}
         THEN [a EXCEPT !.zip = "yes", !.header.encoding = "gzip"]
         ELSE [a EXCEPT !.zip = "no"]

\* One writer: what it changes, and the chunks it hands to the next.
PassOn(writer, acc) ==
    CASE writer = "zip" /\ acc.chunks # <<GzipEnd>> ->
           LET b == Decide(acc.answer)
           IN  [answer |-> b,
                chunks |-> IF b.zip = "yes"
                           THEN [i \in DOMAIN acc.chunks |-> [acc.chunks[i] EXCEPT !.what = "deflated"]]
                           ELSE acc.chunks]
      [] writer = "sign" ->
           [answer |-> [acc.answer EXCEPT !.buffer = @ \o acc.chunks], chunks |-> <<>>]
      [] OTHER -> acc

\* Write from the innermost writer out; a signedWriter keeps what it is given.
WriteAll(a, writers, chunks) ==
    LET acc == FoldRight(PassOn, writers, [answer |-> a, chunks |-> chunks])
    IN  IF Contains(writers, "sign") THEN acc.answer ELSE Leave(acc.answer, acc.chunks)

Write(a, writers, doc) == WriteAll(a, writers, <<Chunk("plain", doc)>>)

\* http.Error and http.NotFound.
HTTPError(a, writers, code) ==
    Write(WriteHeader([a EXCEPT !.header.type = "text/plain"], writers, code),
          writers, ErrorDoc)

\* Mutant: what is left in the compressor is not sent.
CloseForgotten(a, writers) == a

\* compressibleWriter.Close, to the writers outside of it.
Close(a, writers) ==
    IF a.zip = "yes" THEN WriteAll(a, writers, <<GzipEnd>>) ELSE a

\* signedWriter.Sign: the sum of all that was written, and then all of it, to
\* the writers outside.
Sign(a, writers, key) ==
    WriteAll([a EXCEPT !.header.sum = <<Hmac(key, a.buffer)>>, !.buffer = <<>>],
             writers, a.buffer)

\* net/http, when the handler has returned.
Finish(a) == Leave(a, <<>>)

SetType(a, type) == [a EXCEPT !.header.type = type]

\* A status 200 with a JSON body, or 500 when it cannot be encoded.
WriteJSON(a, writers, form, metrics) ==
    LET b == SetType(a, "application/json")
    IN  IF Writable(metrics) THEN Write(b, writers, Document(form, metrics))
                             ELSE HTTPError(b, writers, 500)
============================================================================
