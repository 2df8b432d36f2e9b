CONSTANTS
    Bufs = {b1, b2}  Modifiers = {m1, m2}  Imports = {m2}  Pool = 2  Lendable = 2  MaxTurns = 1
    Threads = {t1, t2}  RingSize = 2  PictureEvery = 4  Gaps = {1, 4}  MaxTaken = 3
    Frame = 4  Interval = 4  Wrap = 64  SampleRing = 8  BufferRing = 2  Lengths = {3, 5}
    Slips <- TheSlips
    Pauses = {0, 3, 5, 40, 63}  MaxBuffers = 3  MaxPictures = 7
    ClientIds = {c1, c2}  NodeIds = {n1}  PortIds = {p1}  NoId = NoId  Inputs = {"left"}
    OutSides = {"both", "right"}  MaxChanges = 9  MaxBacklog = 3
SPECIFICATION FairSpec
CHECK_DEADLOCK FALSE
INVARIANTS ClockKept BuffersKept CallbacksApart OthersOnly
PROPERTIES PicturesKeepGoing
