SPECIFICATION FairSpec
CONSTANTS
  VGA_HEIGHT = 3
  BackgroundHeight = 5
  MUSIC_LEN = 4
  SOUND_HIT_LEN = 2
  EXPLOSION_LEN = 4
INVARIANTS
  TypeOK
  OnePicture
  Upright
PROPERTIES
  OncePerFrame
  SoundsEnd
