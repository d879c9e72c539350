SPECIFICATION Spec
CONSTANTS
  PathCapacity = 10
  EntryCount = 2
  NameCapacity = 5
  Games <- MCGames
  Playlists <- MCPlaylists
  Files <- MCFiles
  Cwd <- MCCwd
  RomLimit = 3
  GBAHeader = 1
  GBHeader = 2
  NDSHeader = 3
  ScreenWidth = 6
  ScreenHeight = 2
  OtherWidth = 3
  OtherHeight = 2
  Displays <- MCDisplays
  Sticks <- MCSticks
  Contacts <- MCContacts
  Scale = 6
  Ticks <- MCTicks
  NoClock = NoClock
  MotionPixels = 2
  FallbackFrames = 2
  TimeoutUsec = 2
  FifoFrames = 2
  BufferFrames = 1
  DrainLimit = 2
  MaxSamples = 5
INVARIANTS LoadWhole SavesHaveOneOwner ScreenAgrees SoundInOrder
PROPERTY CursorHides
