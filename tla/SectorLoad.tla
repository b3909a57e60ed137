----------------------------- MODULE SectorLoad -----------------------------
(***************************************************************************)
(* What fpy_copy_bytes promises to its callers.  Each request names the    *)
(* first sector of a part of the image and its length in bytes; the sectors*)
(* of the part appear at the destination one 512-byte block after another, *)
(* each holding what the image holds there, and success is reported only   *)
(* when the part is complete.  Requests are served in the order given.     *)
(***************************************************************************)
EXTENDS Integers, Sequences

CONSTANT Requests     \* sequence of [first, bytes]

BlockSize == 512

Blocks(k) == (Requests[k].bytes + BlockSize - 1) \div BlockSize

(* The destination blocks of all the requests.                             *)
Slots == UNION {{<<k, b>> : b \in 1..Blocks(k)} : k \in 1..Len(Requests)}

(* Half 0 or half 1 of a sector of the image, and what a block holds.      *)
HalfSector(lba, half) == [lba |-> lba, half |-> half]
HalfSectors == [lba : Int, half : {0, 1}]
Content(low, high, bytes) == [low |-> low, high |-> high, bytes |-> bytes]
Contents == [low : HalfSectors, high : HalfSectors, bytes : Int]

(* What block b of request k must hold once it is written.                 *)
Image(k, b) ==
  LET lba  == Requests[k].first + b - 1
      left == Requests[k].bytes - BlockSize * (b - 1)
  IN  Content(HalfSector(lba, 0), HalfSector(lba, 1),
              IF left > BlockSize THEN BlockSize ELSE left)

Untouched == Content(HalfSector(-1, 0), HalfSector(-1, 0), 0)

VARIABLES dest,       \* dest[<<k, b>>]: contents of block b of request k
          outcome     \* outcome[k]: "pending", "ok" or "error"

Init == /\ dest = [slot \in Slots |-> Untouched]
        /\ outcome = [k \in 1..Len(Requests) |-> "pending"]

(* Request k is the one being served.                                      *)
Current(k) == /\ outcome[k] = "pending"
              /\ \A j \in 1..(k - 1) : outcome[j] # "pending"

(* The first b blocks of request k are there.                              *)
Written(k, b) == \A a \in 1..b : dest[<<k, a>>] = Image(k, a)

WriteBlock(k, b) ==
    /\ Current(k) /\ Written(k, b - 1)
    /\ dest[<<k, b>>] = Untouched
    /\ dest' = [dest EXCEPT ![<<k, b>>] = Image(k, b)]
    /\ UNCHANGED outcome

Succeed(k) ==
    /\ Current(k) /\ Written(k, Blocks(k))
    /\ outcome' = [outcome EXCEPT ![k] = "ok"]
    /\ UNCHANGED dest

Fail(k) ==
    /\ Current(k)
    /\ outcome' = [outcome EXCEPT ![k] = "error"]
    /\ UNCHANGED dest

Next == \E k \in 1..Len(Requests) :
          \/ \E b \in 1..Blocks(k) : WriteBlock(k, b)
          \/ Succeed(k)
          \/ Fail(k)

Spec == Init /\ [][Next]_<<dest, outcome>>
=============================================================================
