SPECIFICATION FairSpec
CONSTANTS
  Sizes = {1, 2, 3, 4, 5, 7, 8, 9, 11, 12}
  MaxFrag = 4
  PageSize = 3
  Taggings = {TRUE, FALSE}
  Profile = "lite"
  MaxResets = 2
INVARIANT StoredInOrder
PROPERTY DownloadCompletes
