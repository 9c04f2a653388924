-------------------------- MODULE BufferProtocol --------------------------
(***************************************************************************)
(* ucommon BufferProtocol (src/common/protocols.cpp, lines 73-401): the   *)
(* buffering a stream class puts between its callers and a peer it reads  *)
(* with _pull() and writes with _push().  An object is used by one        *)
(* thread; what is hard is the peer: a read may return fewer bytes than   *)
(* asked for, and a write may stop part way (a disconnection).            *)
(*                                                                         *)
(*   inbuf   input[0 .. insize), so insize = Len(inbuf)                    *)
(*   outbuf  output[0 .. outsize), so outsize = Len(outbuf)                *)
(*                                                                         *)
(* A byte is named by where it comes from: the k-th byte of the peer's    *)
(* stream is k, and the k-th byte the caller writes is k.  The characters *)
(* of the stream (Source) matter only to getline(), which looks for eol.  *)
(* A call is a sequence of steps, one per pass of the code's loop.        *)
(***************************************************************************)
EXTENDS Integers, Sequences

CONSTANTS
    BufSize,    \* the `size` callers give to allocate()
    Source,     \* the characters the peer has to give
    Blocking,   \* what the stream class's _blocking() returns
    PushFails,  \* whether _push() may write fewer bytes than asked
    MaxReq,     \* largest size a caller passes to get(), put(), getline() or request()
    PrintfMax,  \* longest text a printf() format expands to
    Calls       \* calls the caller makes

ASSUME /\ BufSize \in Nat \ {0}
       /\ Source \in Seq({"a", "\r", "\n"})
       /\ Blocking \in BOOLEAN /\ PushFails \in BOOLEAN
       /\ MaxReq \in Nat \ {0} /\ PrintfMax \in Nat /\ Calls \in Nat

Eol == <<"\r", "\n">>   \* `eol = "\r\n"` in the constructor
EOF == 0                \* _getch() returned EOF; also the NUL vsnprintf stores
NoByte == -1            \* a pass of the read loop that refilled the input
Iota(n) == [k \in 1..n |-> k]

VARIABLES
    buffer,     \* BufferProtocol::buffer is allocated
    input,      \* BufferProtocol::input is not NULL
    output,     \* BufferProtocol::output is not NULL
    end,        \* BufferProtocol::end
    inbuf,      \* input[0 .. insize)
    bufpos,     \* BufferProtocol::bufpos
    outbuf,     \* output[0 .. outsize)
    pulled,     \* stream bytes the peer has handed to _pull()
    sink,       \* bytes the peer has taken through _push(), in order
    written,    \* bytes callers have handed to put(), _putch() or putline()
    pc,         \* the call in progress, "idle" between calls
    want,       \* the size of that call
    count,      \* its local `count`
    eolp,       \* getline()'s local `eolp`
    ch,         \* what the last pass of a read loop took: a byte, EOF or NoByte
    calls,      \* calls made
    taken,      \* history: stream bytes read by callers or discarded, in order
    lost        \* history: written bytes discarded before reaching the peer

vars == <<buffer, input, output, end, inbuf, bufpos, outbuf, pulled, sink, written,
          pc, want, count, eolp, ch, calls, taken, lost>>

Init ==
    /\ buffer = FALSE /\ input = FALSE /\ output = FALSE /\ end = TRUE
    /\ inbuf = <<>> /\ bufpos = 0 /\ outbuf = <<>>
    /\ pulled = 0 /\ sink = <<>> /\ written = 0
    /\ pc = "idle" /\ want = 0 /\ count = 0 /\ eolp = 0 /\ ch = EOF
    /\ calls = 0 /\ taken = <<>> /\ lost = {}

(* The input bytes not yet read, input[bufpos .. insize), while there is  *)
(* an input buffer.                                                       *)
Window == IF input THEN SubSeq(inbuf, bufpos + 1, Len(inbuf)) ELSE <<>>

(* The output bytes still to be pushed, while there is an output buffer. *)
Pending == IF output THEN outbuf ELSE <<>>

(* The caller starts a call; all of them are made while no other is.     *)
StartCall(name, n) ==
    /\ pc = "idle" /\ calls < Calls
    /\ calls' = calls + 1
    /\ pc' = name /\ want' = n /\ count' = 0 /\ eolp' = 0

-----------------------------------------------------------------------------
(* The peer.  _pull(input, bufsize) returns how many bytes it read: at    *)
(* least one while the stream has bytes left, none at its end.            *)
PullSizes ==
    IF pulled < Len(Source)
      THEN 1..(IF Len(Source) - pulled < BufSize THEN Len(Source) - pulled
                                                 ELSE BufSize)
      ELSE {0}

(* _push(output, n) returns how many of the n bytes it wrote, the first  *)
(* ones of them.                                                         *)
PushSizes(n) == IF PushFails THEN 0..n ELSE {n}

(* The peer takes the first k bytes of `bytes`; the rest are lost. *)
Pushed(bytes, k) ==
    /\ sink' = sink \o SubSeq(bytes, 1, k)
    /\ lost' = lost \cup {bytes[i] : i \in k + 1..Len(bytes)}

(* A refill that leaves bufpos where the used-up input ended. *)
FillKeepsPos(k) ==
    /\ inbuf' = [i \in 1..k |-> pulled + i]
    /\ UNCHANGED bufpos
    /\ pulled' = pulled + k
    /\ end' = (k = 0 \/ (k < BufSize /\ ~Blocking))

(* `insize = _pull(input, bufsize); bufpos = 0;`, and end of stream on an *)
(* empty read or on a short one unless the stream is _blocking().         *)
Fill(k) ==
    /\ inbuf' = [i \in 1..k |-> pulled + i]
    /\ bufpos' = 0
    /\ pulled' = pulled + k
    /\ end' = (k = 0 \/ (k < BufSize /\ ~Blocking))

(* One pass of the read loop of get() and _getch(), which getline() runs  *)
(* through _getch(): with the input used up, return at end of stream or   *)
(* refill (returning if nothing came); otherwise take input[bufpos++].    *)
ReadPass ==
    \/ /\ bufpos < Len(inbuf)
       /\ ch' = inbuf[bufpos + 1]
       /\ bufpos' = bufpos + 1
       /\ taken' = Append(taken, ch')
       /\ UNCHANGED <<inbuf, pulled, end>>
    \/ /\ bufpos = Len(inbuf) /\ end
       /\ ch' = EOF
       /\ UNCHANGED <<inbuf, bufpos, pulled, end, taken>>
    \/ /\ bufpos = Len(inbuf) /\ ~end
       /\ \E k \in PullSizes : Fill(k) /\ ch' = IF k = 0 THEN EOF ELSE NoByte
       /\ UNCHANGED taken

(* One pass of the write loop of put() and _putch(): with the output full *)
(* `outsize = 0` and push all of it, and a short push is a disconnection, *)
(* `output = NULL; end = true;`; otherwise output[outsize++] = the byte.  *)
(* ch' is the byte stored, EOF on a disconnection, NoByte after a push.   *)
WritePass ==
    \/ /\ Len(outbuf) < BufSize
       /\ outbuf' = Append(outbuf, written + 1)
       /\ written' = written + 1
       /\ ch' = written + 1
       /\ UNCHANGED <<output, end, sink, lost>>
    \/ /\ Len(outbuf) = BufSize
       /\ outbuf' = <<>>
       /\ \E k \in PushSizes(BufSize) :
             /\ Pushed(outbuf, k)
             /\ IF k < BufSize
                  THEN output' = FALSE /\ end' = TRUE /\ ch' = EOF
                  ELSE UNCHANGED <<output, end>> /\ ch' = NoByte
       /\ UNCHANGED written

(* A _flush() that keeps outsize after a complete push. *)
FlushKeepsOutput ==
    \/ /\ ~output \/ outbuf = <<>>
       /\ UNCHANGED <<output, end, outbuf, sink, lost>>
    \/ /\ output /\ outbuf # <<>>
       /\ \E k \in PushSizes(Len(outbuf)) :
             /\ Pushed(outbuf, k)
             /\ IF k = Len(outbuf)
                  THEN UNCHANGED <<outbuf, output, end>>
                  ELSE output' = FALSE /\ end' = TRUE /\ UNCHANGED outbuf

(* _flush(): `if(!output) return false; if(!outsize) return true;` then   *)
(* push outsize bytes: all pushed empties the output, anything less is a *)
(* disconnection that leaves outsize as it was.                          *)
FlushOutput ==
    \/ /\ ~output \/ outbuf = <<>>
       /\ UNCHANGED <<output, end, outbuf, sink, lost>>
    \/ /\ output /\ outbuf # <<>>
       /\ \E k \in PushSizes(Len(outbuf)) :
             /\ Pushed(outbuf, k)
             /\ IF k = Len(outbuf)
                  THEN outbuf' = <<>> /\ UNCHANGED <<output, end>>
                  ELSE output' = FALSE /\ end' = TRUE /\ UNCHANGED outbuf

-----------------------------------------------------------------------------
(* release(), and the destructor: `if(buffer) { flush(); free(buffer);    *)
(* input = output = buffer = NULL; end = true; }`.  flush() is _flush();  *)
(* what it cannot push, and the input not yet read, go with the buffer.   *)
Release ==
    /\ pc = "idle" /\ calls < Calls
    /\ calls' = calls + 1
    /\ \E k \in PushSizes(Len(Pending)) :
          /\ Pushed(Pending, k)
          /\ outbuf' = IF output /\ k = Len(outbuf) THEN <<>> ELSE outbuf
    /\ taken' = taken \o Window
    /\ IF buffer
         THEN buffer' = FALSE /\ input' = FALSE /\ output' = FALSE /\ end' = TRUE
         ELSE UNCHANGED <<buffer, input, output, end>>
    /\ UNCHANGED <<inbuf, bufpos, pulled, written, pc, want, count, eolp, ch>>

(* allocate(size, mode) with size = BufSize: release(), then one buffer   *)
(* for the input, the output or both, `bufpos = insize = outsize = 0`,    *)
(* `end = false`.  (_clear() belongs to the stream class, and malloc is   *)
(* taken to succeed.)                                                     *)
Allocate(mode) ==
    /\ pc = "idle" /\ calls < Calls
    /\ calls' = calls + 1
    /\ \E k \in PushSizes(Len(Pending)) : Pushed(Pending, k)
    /\ taken' = taken \o Window
    /\ buffer' = TRUE
    /\ input' = (mode \in {"rdwr", "rd"})
    /\ output' = (mode \in {"rdwr", "wr"})
    /\ inbuf' = <<>> /\ bufpos' = 0 /\ outbuf' = <<>>
    /\ end' = FALSE
    /\ UNCHANGED <<pulled, written, pc, want, count, eolp, ch>>

(* get(address, size): `if(!input) return 0;`, then the read loop. *)
GetBegin(n) ==
    /\ StartCall(IF input THEN "get" ELSE "idle", n)
    /\ UNCHANGED <<buffer, input, output, end, inbuf, bufpos, outbuf, pulled,
                   sink, written, ch, taken, lost>>

(* A pass of get()'s loop `while(count < size)`. *)
GetStep ==
    /\ pc = "get"
    /\ ReadPass
    /\ count' = IF ch' > 0 THEN count + 1 ELSE count
    /\ pc' = IF ch' = EOF \/ count' = want THEN "idle" ELSE "get"
    /\ UNCHANGED <<buffer, input, output, outbuf, sink, written, want, eolp,
                   calls, lost>>

(* _getch(): `if(!input) return EOF;`, then one pass of the read loop,   *)
(* or two when the first refills the input.                              *)
GetchBegin ==
    /\ StartCall(IF input THEN "getch" ELSE "idle", 1)
    /\ UNCHANGED <<buffer, input, output, end, inbuf, bufpos, outbuf, pulled,
                   sink, written, ch, taken, lost>>

GetchStep ==
    /\ pc = "getch"
    /\ ReadPass
    /\ pc' = IF ch' = NoByte THEN "getch" ELSE "idle"
    /\ UNCHANGED <<buffer, input, output, outbuf, sink, written, want, count,
                   eolp, calls, lost>>

(* getline(string, size): `if(!input) return 0;`, then _getch() while    *)
(* `count < size - 1`; size is unsigned, so size 0 sets no limit.        *)
GetlineBegin(n) ==
    /\ StartCall(IF input /\ n # 1 THEN "getline" ELSE "idle", n)
    /\ UNCHANGED <<buffer, input, output, end, inbuf, bufpos, outbuf, pulled,
                   sink, written, ch, taken, lost>>

(* A pass of getline()'s loop: EOF ends the line; a byte is stored and    *)
(* matched against eol (a mismatch starts over at eolp = 0 without        *)
(* rematching the byte), and a "\n" always ends the line.  The call then  *)
(* ends at the size limit; it returns count - eolp, plus one unless EOF.  *)
GetlineStep ==
    /\ pc = "getline"
    /\ ReadPass
    /\ IF ch' > 0
         THEN LET c == Source[ch']
                  matched == IF c = Eol[eolp + 1] THEN eolp + 1 ELSE 0
                  e == IF matched < Len(Eol) /\ c = "\n" THEN matched + 1
                                                        ELSE matched
              IN /\ count' = count + 1
                 /\ eolp' = e
                 /\ pc' = IF matched = Len(Eol) \/ c = "\n"
                             \/ (want # 0 /\ count' = want - 1)
                          THEN "idle" ELSE "getline"
         ELSE /\ eolp' = IF ch' = EOF THEN 0 ELSE eolp
              /\ pc' = IF ch' = EOF THEN "idle" ELSE "getline"
              /\ UNCHANGED count
    /\ UNCHANGED <<buffer, input, output, outbuf, sink, written, want, calls,
                   lost>>

(* put(address, size) of `size` bytes: `if(!output) return 0;`, then the *)
(* write loop.  putline(string) is put(string) and then put(eol), which   *)
(* returns at once if the first put() disconnected: a put of both.        *)
PutBegin(n) ==
    /\ StartCall(IF output THEN "put" ELSE "idle", n)
    /\ UNCHANGED <<buffer, input, output, end, inbuf, bufpos, outbuf, pulled,
                   sink, written, ch, taken, lost>>

PutlineBegin(n) ==
    /\ StartCall(IF output THEN "put" ELSE "idle", n + Len(Eol))
    /\ UNCHANGED <<buffer, input, output, end, inbuf, bufpos, outbuf, pulled,
                   sink, written, ch, taken, lost>>

(* A pass of put()'s loop `while(count < size)`. *)
PutStep ==
    /\ pc = "put"
    /\ WritePass
    /\ count' = IF ch' > 0 THEN count + 1 ELSE count
    /\ pc' = IF ch' = EOF \/ count' = want THEN "idle" ELSE "put"
    /\ UNCHANGED <<buffer, input, inbuf, bufpos, pulled, want, eolp, calls,
                   taken>>

(* _putch(ch): `if(!output) return EOF;`, then one pass of the write     *)
(* loop, or two when the first pushes a full output.                     *)
PutchBegin ==
    /\ StartCall(IF output THEN "putch" ELSE "idle", 1)
    /\ UNCHANGED <<buffer, input, output, end, inbuf, bufpos, outbuf, pulled,
                   sink, written, ch, taken, lost>>

PutchStep ==
    /\ pc = "putch"
    /\ WritePass
    /\ pc' = IF ch' = NoByte THEN "putch" ELSE "idle"
    /\ UNCHANGED <<buffer, input, inbuf, bufpos, pulled, want, count, eolp,
                   calls, taken>>

(* flush(), that is _flush(), called on its own. *)
Flush ==
    /\ pc = "idle" /\ calls < Calls
    /\ calls' = calls + 1
    /\ FlushOutput
    /\ UNCHANGED <<buffer, input, inbuf, bufpos, pulled, written, pc, want,
                   count, eolp, ch, taken>>

(* A purge() that forgets `bufpos = 0`. *)
PurgeKeepsPos ==
    /\ pc = "idle" /\ calls < Calls
    /\ calls' = calls + 1
    /\ taken' = taken \o Window
    /\ lost' = lost \cup {Pending[i] : i \in 1..Len(Pending)}
    /\ inbuf' = <<>> /\ outbuf' = <<>>
    /\ UNCHANGED <<buffer, input, output, end, bufpos, pulled, sink, written,
                   pc, want, count, eolp, ch>>

(* purge(): `outsize = insize = bufpos = 0;`: the unread input and the   *)
(* unpushed output are dropped.                                          *)
Purge ==
    /\ pc = "idle" /\ calls < Calls
    /\ calls' = calls + 1
    /\ taken' = taken \o Window
    /\ lost' = lost \cup {Pending[i] : i \in 1..Len(Pending)}
    /\ inbuf' = <<>> /\ bufpos' = 0 /\ outbuf' = <<>>
    /\ UNCHANGED <<buffer, input, output, end, pulled, sink, written, pc,
                   want, count, eolp, ch>>

(* reset(): `insize = bufpos = 0;`: the unread input is dropped. *)
Reset ==
    /\ pc = "idle" /\ calls < Calls
    /\ calls' = calls + 1
    /\ taken' = taken \o Window
    /\ inbuf' = <<>> /\ bufpos' = 0
    /\ UNCHANGED <<buffer, input, output, end, outbuf, pulled, sink, written,
                   pc, want, count, eolp, ch, lost>>

(* request(size): `if(!output || size > bufsize) return NULL;`, flush()  *)
(* when the request does not fit, then `offset = outsize; outsize +=      *)
(* size;` and the caller fills output + offset with `size` new bytes.     *)
(* The flush's result is not looked at: after a short push output is      *)
(* NULL, the caller writes through NULL + offset (undefined; here the     *)
(* bytes vanish) and outsize grows past bufsize.                          *)
Request(n) ==
    /\ pc = "idle" /\ calls < Calls
    /\ calls' = calls + 1
    /\ output /\ n <= BufSize
    /\ LET fits == Len(outbuf) + n <= BufSize
           bytes == [i \in 1..n |-> written + i]
       IN \E k \in IF fits THEN {Len(outbuf)} ELSE PushSizes(Len(outbuf)) :
            /\ IF fits THEN UNCHANGED <<sink, output, end>>
                       ELSE /\ sink' = sink \o SubSeq(outbuf, 1, k)
                            /\ IF k = Len(outbuf) THEN UNCHANGED <<output, end>>
                               ELSE output' = FALSE /\ end' = TRUE
            /\ outbuf' = IF ~fits /\ k = Len(outbuf) THEN bytes ELSE outbuf \o bytes
            /\ lost' = IF ~fits /\ k < Len(outbuf)
                         THEN lost \cup {outbuf[i] : i \in k + 1..Len(outbuf)}
                                   \cup {bytes[i] : i \in 1..n}
                         ELSE lost
    /\ written' = written + n
    /\ UNCHANGED <<buffer, input, inbuf, bufpos, pulled, pc, want, count, eolp,
                   ch, taken>>

(* printf(format, ...) whose text is n bytes long: `if(!flush() ||        *)
(* !output || !format) return 0;`, vsnprintf(output, bufsize, ...) stores *)
(* the first bufsize - 1 bytes of the text and a NUL and returns n; `if   *)
(* (result < 1) return 0;`, result is cut to bufsize, and _push(output,   *)
(* result): a short push disconnects.  A text of bufsize bytes or more    *)
(* thus pushes the NUL in place of its last byte.                         *)
Printf(n) ==
    /\ pc = "idle" /\ calls < Calls
    /\ calls' = calls + 1
    /\ output
    /\ \E j \in PushSizes(Len(outbuf)) :
          IF j < Len(outbuf)
            THEN /\ Pushed(outbuf, j)
                 /\ output' = FALSE /\ end' = TRUE
                 /\ UNCHANGED <<outbuf, written>>
            ELSE LET text == [i \in 1..n |-> written + i]
                     stored == [i \in 1..n |-> IF i < BufSize THEN text[i] ELSE EOF]
                     result == SubSeq(stored, 1, IF n > BufSize THEN BufSize ELSE n)
                 IN \E k \in PushSizes(Len(result)) :
                      /\ sink' = sink \o outbuf \o SubSeq(result, 1, k)
                      /\ lost' = lost \cup ({text[i] : i \in 1..n}
                                              \ {result[i] : i \in 1..k})
                      /\ outbuf' = <<>>
                      /\ written' = written + n
                      /\ IF k < Len(result)
                           THEN output' = FALSE /\ end' = TRUE
                           ELSE UNCHANGED <<output, end>>
    /\ UNCHANGED <<buffer, input, inbuf, bufpos, pulled, pc, want, count, eolp,
                   ch, taken>>

(* The caller stops once it has made its calls and the last one returned. *)
Done ==
    /\ pc = "idle" /\ calls = Calls
    /\ UNCHANGED vars

Next ==
    \/ \E mode \in {"rdwr", "rd", "wr"} : Allocate(mode)
    \/ Release \/ Flush \/ Purge \/ Reset
    \/ \E n \in 1..MaxReq : GetBegin(n) \/ PutBegin(n) \/ PutlineBegin(n)
    \/ \E n \in 0..MaxReq : GetlineBegin(n)
    \/ \E n \in 1..MaxReq : Request(n)
    \/ \E n \in 0..PrintfMax : Printf(n)
    \/ GetchBegin \/ PutchBegin
    \/ GetStep \/ GetchStep \/ GetlineStep \/ PutStep \/ PutchStep
    \/ Done

Spec == Init /\ [][Next]_vars

-----------------------------------------------------------------------------
TypeOK ==
    /\ buffer \in BOOLEAN /\ input \in BOOLEAN /\ output \in BOOLEAN
    /\ end \in BOOLEAN
    /\ inbuf \in Seq(1..Len(Source)) /\ Len(inbuf) <= BufSize
    /\ bufpos \in 0..Len(inbuf)
    /\ outbuf \in Seq(Nat \ {0}) /\ (output => Len(outbuf) <= BufSize)
    /\ pc \in {"idle", "get", "getch", "getline", "put", "putch"}
    /\ (input \/ output) => buffer

(* Every byte the peer hands to _pull() is read by a caller, or dropped   *)
(* by reset(), purge() or release(), exactly once and in stream order:    *)
(* the bytes taken so far and the unread window make up the stream read   *)
(* so far.  It is about get()/_getch() refilling only an input that is    *)
(* used up, and `bufpos = 0` with every refill.                           *)
StreamInOrder == taken \o Window = Iota(pulled)

(* Every byte a caller writes reaches the peer once and in order, unless *)
(* it is lost to a short push, purge() or release(): the bytes pushed and *)
(* the ones still buffered are the bytes written less the lost ones.  It  *)
(* is about put()/_putch() emptying a full output before storing, and     *)
(* _flush() clearing outsize only after a complete push.                  *)
OutputInOrder ==
    sink \o Pending = SelectSeq(Iota(written), LAMBDA p : p \notin lost)
=============================================================================
