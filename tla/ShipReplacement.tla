--------------------------- MODULE ShipReplacement ---------------------------
(***************************************************************************)
(* The SHiP policy of the LLC (replacement/ship.llc_repl), for one sampled *)
(* set: the sampler learns by which instructions lines are brought in that *)
(* nobody uses again, and such fills are predicted distant.                *)
(***************************************************************************)
EXTENDS Integers

CONSTANTS
  SAMPLER_WAY,  \* LLC_WAY
  Tag,          \* tags of the set's lines
  Signature,    \* ip % SHCT_PRIME
  SHCT_MAX,
  NoTag
ASSUME ShipAssumption == SAMPLER_WAY \in Nat \ {0}

VARIABLES
  line,     \* line[w]: the tag in way w of the LLC's set
  age,      \* rrpv of the set
  sampler,  \* sampler[w]: an entry of the sampler
  SHCT      \* SHCT[ip]: how often the lines of ip went unused

shipVars == <<line, age, sampler, SHCT>>

SWay == 0 .. SAMPLER_WAY - 1
MaxAge == 3  \* maxRRPV
FirstOf(W) == {w \in W : \A v \in W : w <= v}

\* llc_find_victim, as in the other re-reference policies.
Oldest == CHOOSE d \in 0 .. MaxAge : /\ \E w \in SWay : age[w] = d
                                     /\ \A w \in SWay : age[w] <= d
SAged == [w \in SWay |-> age[w] + MaxAge - Oldest]

\* update_sampler: the entry an access goes to is the one of its tag, else an
\* unused one, else the least recently used.
SamplerHits(tag) == {w \in SWay : sampler[w].valid /\ sampler[w].tag = tag}
Match(tag) ==
  LET hits == SamplerHits(tag)
      free == {w \in SWay : ~sampler[w].valid}
      old  == {w \in SWay : sampler[w].lru = SAMPLER_WAY - 1}
  IN FirstOf(IF hits # {} THEN hits ELSE IF free # {} THEN free ELSE old)

\* A hit counts for the signature that brought the line in, an entry that is
\* replaced unused counts against its own.
Trained(m, tag) ==
  IF SamplerHits(tag) # {}
  THEN [SHCT EXCEPT ![sampler[m].ip] = IF @ > 0 THEN @ - 1 ELSE 0]
  ELSE IF sampler[m].valid /\ ~sampler[m].used
  THEN [SHCT EXCEPT ![sampler[m].ip] = IF @ < SHCT_MAX THEN @ + 1 ELSE SHCT_MAX]
  ELSE SHCT

SampledOrderNoAging(m, w) == IF w = m THEN 0 ELSE sampler[w].lru
SampledOrder(m, w) ==
  IF w = m THEN 0
  ELSE sampler[w].lru + (IF sampler[w].lru < sampler[m].lru THEN 1 ELSE 0)

UpdateSampler(tag, ip) ==
  \E m \in Match(tag) :
    LET hit == SamplerHits(tag) # {} IN
      /\ SHCT' = Trained(m, tag)
      /\ sampler' = [w \in SWay |->
           [sampler[w] EXCEPT
              !.valid = @ \/ w = m,
              !.tag = IF w = m THEN tag ELSE @,
              !.ip = IF w = m /\ ~hit THEN ip ELSE @,
              !.used = IF w = m THEN hit ELSE @,
              !.lru = SampledOrder(m, w)]]

-----------------------------------------------------------------------------
\* A demand or a prefetch hits way w.
SHit(w, ip) ==
  /\ line[w] # NoTag
  /\ UpdateSampler(line[w], ip)
  /\ age' = [age EXCEPT ![w] = 0]
  /\ UNCHANGED line

\* One that missed fills the victim, distant if its signature is known unused.
SFill(tag, ip) ==
  /\ \A w \in SWay : line[w] # tag
  /\ UpdateSampler(tag, ip)
  /\ \E w \in FirstOf({v \in SWay : SAged[v] = MaxAge}) :
       /\ line' = [line EXCEPT ![w] = tag]
       /\ age' = [SAged EXCEPT ![w] = IF SHCT'[ip] = SHCT_MAX THEN MaxAge
                                                             ELSE MaxAge - 1]

\* Writebacks pass the sampler by; their hits change nothing.
SWriteback(tag) ==
  /\ \A w \in SWay : line[w] # tag
  /\ \E w \in FirstOf({v \in SWay : SAged[v] = MaxAge}) :
       /\ line' = [line EXCEPT ![w] = tag]
       /\ age' = [SAged EXCEPT ![w] = MaxAge - 1]
  /\ UNCHANGED <<sampler, SHCT>>

SInit ==
  /\ line = [w \in SWay |-> NoTag]
  /\ age = [w \in SWay |-> MaxAge]
  /\ sampler = [w \in SWay |-> [valid |-> FALSE, tag |-> NoTag, ip |-> NoTag,
                                used |-> FALSE, lru |-> w]]
  /\ SHCT = [ip \in Signature |-> 0]

SNext ==
  \/ \E w \in SWay, ip \in Signature : SHit(w, ip)
  \/ \E tag \in Tag, ip \in Signature : SFill(tag, ip)
  \/ \E tag \in Tag : SWriteback(tag)

SSpec == SInit /\ [][SNext]_shipVars

-----------------------------------------------------------------------------
\* The sampler always finds an entry, and one only, whatever it saw before:
\* past its loops it indexes the set with SAMPLER_WAY (ship.llc_repl:196-203).
SamplerFindsEntry ==
  /\ \A w, v \in SWay : sampler[w].lru = sampler[v].lru => w = v
  /\ \A tag \in Tag : Match(tag) # {}
  /\ \A w, v \in SWay :
       (sampler[w].valid /\ sampler[v].valid /\ sampler[w].tag = sampler[v].tag)
         => w = v
=============================================================================
