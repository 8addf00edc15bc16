CONSTANTS
    Blocks <- ForkBlocks
    Genesis = "g"
    Parent <- ForkParent
    Anc <- ForkAnc
    Height <- HeightOf
    Work <- HeightOf
    BadHeader = {}
    Bad = {"b1"}
    Peers = {h, s}
    Outbound = {h, s}
    OneShot = {}
    Clients = {}
    Honest = {h}
    HonestTip = "a2"
    NoBlock = NoBlock
    NoPeer = NoPeer
    MAX_BLOCKS_IN_TRANSIT_PER_PEER = 1
    BLOCK_DOWNLOAD_WINDOW = 1
SPECIFICATION FairSpec
INVARIANTS
    InFlightAgrees CountsExact TimeoutsDeserved LastCommonIsLinked
PROPERTY CatchesUp
