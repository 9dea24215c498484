CONSTANTS
  EmbeddedFiles <- ShippedFiles
  Overlays <- NoOverlay
  SourcesFiles <- ShippedSourcesFiles
  Hosts = {"x86"}
  Toolchains <- ShippedToolchains
  Fragments = {"x86", "ppc"}
SPECIFICATION ConfigSpec
CHECK_DEADLOCK FALSE
INVARIANT LoadedConfigPlans
