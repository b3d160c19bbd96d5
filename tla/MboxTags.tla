------------------------------ MODULE MboxTags ------------------------------
(***************************************************************************)
(* The property channel of the mailbox: a core sends the address of a      *)
(* buffer with a request, the video core writes its answer over it and     *)
(* sends the address back.  early_get_mem_size asks before there is a      *)
(* cache, mbox_request with one, so that the two sides may see different   *)
(* contents of the buffer.  Its eight words lie on the stack, at any       *)
(* multiple of 16 bytes in a line of 64, with the frames of the functions  *)
(* mbox_request calls right below.  The head is its first four words, with *)
(* the code and the tag, the body the other four, with the values.         *)
(***************************************************************************)
EXTENDS Integers, Sequences, FiniteSets

CONSTANTS Tags,
          MboxDepth,     \* the words a mailbox holds, 8 in the hardware
          Offsets        \* where in its line a build may let the buffer start

ASSUME MboxAssumption == MboxDepth \in Nat \ {0} /\ Offsets \subseteq {0, 16, 32, 48}

Halves == {"head", "body"}
Value(t) == <<"value of", t>>
Zeros   == <<"zeros">>
Unknown == <<"unknown">>

VARIABLES asker,      \* what the core does: "early", "main", "ask", "send", "read", "done"
          early,      \* the call is one of early_get_mem_size
          asked,      \* its tag
          offset,     \* where in its line the buffer of mbox_request starts
          ram, view,  \* the buffer in memory, and in the core's cache
          cached, dirty,   \* the halves of it that are in the cache; not written back
          to_vc, from_vc,  \* the words in the mailbox each way, as their channels
          unread,       \* history: early_get_mem_size left its answer's word
          returned      \* what the call returns, <<whether it succeeded, the body>>

cache == <<view, cached, dirty>>
call  == <<early, asked, offset>>
mvars == <<asker, call, ram, cache, to_vc, from_vc, unread, returned>>

Head4(code, t) == [code |-> code, tag |-> t]
Blank == [head |-> Head4("none", "none"), body |-> Unknown]

MInit == /\ asker = "early" /\ early = TRUE
         /\ asked = "none" /\ offset = 0
         /\ ram = Blank /\ view = Blank /\ cached = {} /\ dirty = {}
         /\ to_vc = <<>> /\ from_vc = <<>> /\ unread = FALSE
         /\ returned = <<FALSE, Unknown>>

\* The part of the buffer that is in one line with half l.
LineOf(l) == IF offset = 48 THEN {l} ELSE Halves

\* What the core reads of the buffer.
Reads(l) == IF l \in cached THEN view[l] ELSE ram[l]

Request(t) == [head |-> Head4("request", t), body |-> Zeros]

\* early_get_mem_size fills its buffer, which is in memory at once.
EarlyAsk(t) == /\ asker = "early"
               /\ asked' = t /\ early' = TRUE
               /\ ram' = Request(t)
               /\ asker' = "send"
               /\ UNCHANGED <<offset, cache, to_vc, from_vc, unread, returned>>

\* early_mmu_enable turns the cache on.
CacheOn == /\ asker = "early" /\ asker' = "main"
           /\ UNCHANGED <<call, ram, cache, to_vc, from_vc, unread, returned>>

\* mbox_request fills its buffer, in the cache,
Ask(t) == /\ asker = "main"
          /\ asked' = t /\ early' = FALSE /\ offset' \in Offsets
          /\ view' = Request(t) /\ cached' = Halves /\ dirty' = Halves
          /\ asker' = "ask"
          /\ UNCHANGED <<ram, to_vc, from_vc, unread, returned>>

\* Lines leave the cache, those that were written to by way of the memory.
Drop(halves) == /\ ram' = [l \in Halves |-> IF l \in halves \cap dirty THEN view[l] ELSE ram[l]]
                /\ cached' = cached \ halves /\ dirty' = dirty \ halves
                /\ UNCHANGED view

\* Mutant of Flush: the line is invalidated without being cleaned, dc ivac.
Discard == /\ cached' = cached \ LineOf("head") /\ dirty' = dirty \ LineOf("head")
           /\ UNCHANGED <<ram, view>>

\* aarch64_cache_flush_invalidate: dc civac of the line at the buffer's address.
Flush == Drop(LineOf("head"))

FlushRequest == /\ asker = "ask" /\ asker' = "send"
                /\ Flush
                /\ UNCHANGED <<call, to_vc, from_vc, unread, returned>>

\* and mbox_send waits while the mailbox is full.
Send == /\ asker = "send" /\ Len(to_vc) < MboxDepth
        /\ to_vc' = Append(to_vc, "tags")
        /\ asker' = "read"
        /\ UNCHANGED <<call, ram, cache, from_vc, unread, returned>>

\* The video core answers what it finds in memory, where the body may be what
\* the stack held before.
Answer == /\ to_vc # <<>> /\ Len(from_vc) < MboxDepth
          /\ to_vc' = Tail(to_vc)
          /\ from_vc' = Append(from_vc, "tags")
          /\ \/ /\ ram.head.code = "request"
                /\ ram' = [head |-> Head4("success", ram.head.tag), body |-> Value(ram.head.tag)]
             \/ /\ ram.head.code # "request" \/ ram.body # Zeros
                /\ ram' = [ram EXCEPT !.head.code = "error"]
          /\ UNCHANGED <<asker, call, cache, unread, returned>>

\* A word of another channel comes.
Foreign == /\ Len(from_vc) < MboxDepth
           /\ from_vc' = Append(from_vc, "other")
           /\ UNCHANGED <<asker, call, ram, cache, to_vc, unread, returned>>

\* mbox_request has called mbox_send or mbox_read.
Waiting == asker \in {"send", "read"} /\ ~early

Fetched(l) == /\ view' = [h \in Halves |-> IF h \in LineOf(l) THEN Reads(h) ELSE view[h]]
              /\ cached' = cached \cup LineOf(l)
              /\ UNCHANGED ram

\* What lies next to the buffer on the stack is read,
Refetch(l) == /\ Waiting /\ l \notin cached
              /\ Fetched(l) /\ UNCHANGED dirty
              /\ UNCHANGED <<asker, call, to_vc, from_vc, unread, returned>>

\* or the frame below it is written, which is in the buffer's first line unless
\* the buffer starts one;
DirtyFrame == /\ Waiting /\ offset # 0
              /\ Fetched("head") /\ dirty' = dirty \cup LineOf("head")
              /\ UNCHANGED <<asker, call, to_vc, from_vc, unread, returned>>

\* and the cache makes room for other lines when it has to.
Evict(l) == /\ Waiting /\ l \in cached
            /\ Drop(LineOf(l))
            /\ UNCHANGED <<asker, call, to_vc, from_vc, unread, returned>>

\* Mutant of Channel: the answer is not told from other words.
AnyWord(word) == TRUE

\* mbox_read's loop goes on until the word is of its channel,
Channel(word) == word = "tags"

\* What a call returns that sees this buffer.
Result(head, body) == IF head.code = "success" THEN <<TRUE, body>> ELSE <<FALSE, Unknown>>

\* mbox_read of a word, which is lost when it is of another channel.
Skip == /\ asker = "read" /\ ~early /\ from_vc # <<>> /\ ~Channel(Head(from_vc))
        /\ from_vc' = Tail(from_vc)
        /\ UNCHANGED <<asker, call, ram, cache, to_vc, unread, returned>>

\* mbox_request has the word of its channel, flushes again and looks.
Take == /\ asker = "read" /\ ~early /\ from_vc # <<>> /\ Channel(Head(from_vc))
        /\ from_vc' = Tail(from_vc)
        /\ Flush
        /\ returned' = Result(Reads("head")', Reads("body")')
        /\ asker' = "done"
        /\ UNCHANGED <<call, to_vc, unread>>

\* early_get_mem_size takes any word and returns when its buffer has an answer.
EarlySkip == /\ asker = "read" /\ early /\ from_vc # <<>> /\ ram.head.code # "success"
             /\ from_vc' = Tail(from_vc)
             /\ UNCHANGED <<asker, call, ram, cache, to_vc, unread, returned>>
EarlyTake == /\ asker = "read" /\ early /\ from_vc # <<>> /\ ram.head.code = "success"
             /\ from_vc' = Tail(from_vc)
             /\ unread' = (unread \/ Head(from_vc) # "tags")
             /\ returned' = <<TRUE, ram.body>>
             /\ asker' = "done"
             /\ UNCHANGED <<call, ram, cache, to_vc>>

\* The caller has its answer; its buffer is gone, with the lines of it.
Done == /\ asker = "done"
        /\ asker' = IF early THEN "early" ELSE "main"
        /\ ram' = Blank /\ view' = Blank /\ cached' = {} /\ dirty' = {}
        /\ asked' = "none" /\ returned' = <<FALSE, Unknown>>
        /\ UNCHANGED <<early, offset, to_vc, from_vc, unread>>

MNext == \/ CacheOn \/ FlushRequest \/ Send \/ Answer \/ Foreign \/ DirtyFrame
         \/ Skip \/ Take \/ EarlySkip \/ EarlyTake \/ Done
         \/ \E l \in Halves : Refetch(l) \/ Evict(l)
         \/ \E t \in Tags : EarlyAsk(t) \/ Ask(t)

MSpec == MInit /\ [][MNext]_mvars

---------------------------------------------------------------------------
(* Properties. *)

\* What a caller may rely on.  A call of early_get_mem_size returns the answer
\* to its own tag, whatever other words come.  mbox_request does so when its
\* buffer starts a line, so that no other frame is in it, unless a call of
\* early_get_mem_size took a foreign word for its answer and left the answer's
\* word to be read; and a success that it reports is the answer to its own tag
\* in all cases but that of a buffer in two lines, one of which is not flushed.
AnswerRight ==
  asker = "done" =>
    /\ early \/ (offset = 0 /\ ~unread) => returned = <<TRUE, Value(asked)>>
    /\ returned[1] /\ offset # 48 => returned[2] = Value(asked)

\* kernel.c:144 and 152 panic when mbox_request fails, so a request that the
\* video core understands should succeed where mbox.c lets its buffer start.
RequestAnswered == asker = "done" /\ ~unread => returned[1]
=============================================================================
